---- MODULE Spec2Model ----
(***************************************************************************)
(* State-machine model of the FastAPI-Security backend: the /auth router   *)
(* (src/auth.py), the /products router (src/routers/products.py), the      *)
(* WebSocket endpoints and their ConnectionManager (src/websocket.py), the *)
(* GraphQL schema (src/graphql_app) and the single-file application        *)
(* (src/main.py).                                                          *)
(*                                                                         *)
(* One action per handler or step.  The relational tables are sets of rows,*)
(* a JWT is the record of its claims together with the key that signed it, *)
(* and every step records the request it served and the response it gave.  *)
(***************************************************************************)
EXTENDS Integers, Sequences, FiniteSets, TLC

\* ------------------------------------------------------------------------
\* Bounds of the model
\* ------------------------------------------------------------------------
MaxProducts == 3
MaxTasks == 1
TickMinutes == 40
MaxNow == 40
MaxReceived == 3
MaxNumber == 3
MaxUploads == 2
MaxBroadcastProducts == 1

Usernames == {"alice", "bob"}
Passwords == {"pw1", "pw2"}
Sockets == {"ws1", "ws2"}

\* ------------------------------------------------------------------------
\* Settings (src/auth.py:15-18)
\* ------------------------------------------------------------------------
SECRET_KEY == "a_very_secret_key_for_local_development"
ALGORITHM == "HS256"
ACCESS_TOKEN_EXPIRE_MINUTES == 30
REFRESH_TOKEN_EXPIRE_DAYS == 7
MinutesPerDay == 1440

\* Python's None, as seen by dict.get and by "is None" tests.
None == "None"

VARIABLES
    users,              \* table users: rows (username, hashed_password)
    products,           \* table products: rows (id, name, price, owner_username)
    next_id,            \* the sequence behind products.id
    tasks,              \* BackgroundTasks scheduled by add_task, not yet run
    active_connections, \* manager.active_connections
    received,           \* texts each socket was sent, in order
    websockets,         \* each WebSocket: its state, path, user and close code
    sent,               \* the send_text calls of the last step, in order
    refresh_tokens,     \* table refresh_tokens: rows (username, refresh_token, expiry)
    calculations,       \* table calculations: rows (username, task, result), in order
    computation,        \* the background computation and its retry state
    now,                \* datetime.utcnow(), in minutes
    request,            \* the request served by the last step
    response,           \* the response given by the last step
    handler_ran,        \* whether the last step entered the endpoint function
    bucket,             \* the objects of the S3 bucket, in upload order
    avatar_urls,        \* column users.avatar_url, by username
    app_state_pool,     \* app.state.pool
    startup,            \* connect_to_db: its position, attempt and sleeps
    registering,        \* the /auth/register requests in flight, by client
    broadcasting        \* the broadcasts in progress, by the socket of their handler

vars == <<users, products, next_id, tasks, active_connections, received,
          websockets, sent, refresh_tokens, calculations, computation,
          now, request, response, handler_ran, bucket, avatar_urls,
          app_state_pool, startup, registering, broadcasting>>

\* The state of the WebSocket endpoints and the state of src/main.py.
ws_vars == <<active_connections, received, websockets>>
main_vars == <<refresh_tokens, calculations, computation>>
media_vars == <<bucket, avatar_urls>>
startup_vars == <<app_state_pool, startup>>
step_vars == <<registering, broadcasting>>
other_vars == <<media_vars, startup_vars, step_vars>>

Range(s) == {s[i] : i \in DOMAIN s}

\* ------------------------------------------------------------------------
\* passlib CryptContext (src/auth.py:21, 44-50)
\* ------------------------------------------------------------------------
get_password_hash(password) == <<"bcrypt", password>>

verify_password(plain_password, hashed_password) ==
    hashed_password = get_password_hash(plain_password)

\* ------------------------------------------------------------------------
\* jose.jwt as the code calls it
\* ------------------------------------------------------------------------
\* jwt.encode(claims, key, algorithm): the claims, bound to the signing key.
jwt_encode(claims, key) == [claims |-> claims, key |-> key]

MalformedToken == [malformed |-> TRUE]

\* jwt.decode(token, key, algorithms): JWTError for a string that is no JWT,
\* for a signature made with another key and for an exp in the past;
\* otherwise the payload.
jwt_decode(token, key) ==
    IF "claims" \notin DOMAIN token THEN [error |-> "JWTError"]
    ELSE IF token.key # key THEN [error |-> "JWTError"]
    ELSE IF "exp" \in DOMAIN token.claims /\ token.claims.exp < now
         THEN [error |-> "JWTError"]
    ELSE [payload |-> token.claims]

\* payload.get(name)
payload_get(payload, name) ==
    IF name \in DOMAIN payload THEN payload[name] ELSE None

\* ------------------------------------------------------------------------
\* create_tokens (src/auth.py:55-70)
\* ------------------------------------------------------------------------
create_tokens(data) ==
    LET expire_access == now + ACCESS_TOKEN_EXPIRE_MINUTES
        expire_refresh == now + REFRESH_TOKEN_EXPIRE_DAYS * MinutesPerDay
        to_encode_access == [sub |-> data.sub, exp |-> expire_access, type |-> "access"]
        to_encode_refresh == [sub |-> data.sub, exp |-> expire_refresh, type |-> "refresh"]
    IN  [access_token |-> jwt_encode(to_encode_access, SECRET_KEY),
         refresh_token |-> jwt_encode(to_encode_refresh, SECRET_KEY),
         token_type |-> "bearer"]

\* ------------------------------------------------------------------------
\* get_user_from_db (src/auth.py:73-76)
\* ------------------------------------------------------------------------
NoUser == [none |-> TRUE]

get_user_from_db(pool, username) ==
    IF \E row \in pool : row.username = username
    THEN CHOOSE row \in pool : row.username = username
    ELSE NoUser

\* ------------------------------------------------------------------------
\* HTTP responses
\* ------------------------------------------------------------------------
NoHeaders == {}
JSONResponse(status_code, body) ==
    [status_code |-> status_code, headers |-> NoHeaders, body |-> body]

\* raise HTTPException(status_code, detail, headers), as the framework
\* renders it: {"detail": detail}.
HTTPException(status_code, detail, headers) ==
    [status_code |-> status_code, headers |-> headers, body |-> [detail |-> detail]]

\* ------------------------------------------------------------------------
\* Message texts.  The source texts are Russian; the model names each by an
\* ASCII rendering, one distinct string per distinct source text.
\* ------------------------------------------------------------------------
\* src/auth.py:128
DETAIL_USER_EXISTS == "Polzovatel s takim imenem uzhe sushchestvuet"
\* src/auth.py:149
DETAIL_BAD_LOGIN == "Nevernyj login ili parol"
\* src/auth.py:88
DETAIL_CREDENTIALS == "Could not validate credentials"
\* fastapi.security.OAuth2PasswordBearer, src/auth.py:23
DETAIL_NOT_AUTHENTICATED == "Not authenticated"
\* src/routers/products.py:93
DETAIL_PRODUCT_NOT_FOUND == "Produkt ne najden"
\* src/routers/products.py:97
DETAIL_NOT_OWNER == "Vy ne mozhete udalit chuzhoj produkt"

WWW_AUTHENTICATE_BEARER == {<<"WWW-Authenticate", "Bearer">>}

\* ------------------------------------------------------------------------
\* oauth2_scheme = OAuth2PasswordBearer(tokenUrl="/auth/token")
\* (src/auth.py:23).  The Authorization header is absent, or carries a
\* scheme and a parameter.  Without a bearer credential the dependency
\* raises before any other dependency or the endpoint function runs.
\* ------------------------------------------------------------------------
NoAuthorization == [absent |-> TRUE]

oauth2_scheme(authorization) ==
    IF "scheme" \notin DOMAIN authorization \/ authorization.scheme # "bearer"
    THEN [raised |-> HTTPException(401, DETAIL_NOT_AUTHENTICATED, WWW_AUTHENTICATE_BEARER)]
    ELSE [token |-> authorization.param]

\* ------------------------------------------------------------------------
\* get_current_user (src/auth.py:82-112)
\* ------------------------------------------------------------------------
credentials_exception ==
    HTTPException(401, DETAIL_CREDENTIALS, WWW_AUTHENTICATE_BEARER)

\* get_current_user without the test of the type claim.
get_current_user_no_type_check(token, pool) ==
    LET decoded == jwt_decode(token, SECRET_KEY)
    IN  IF "error" \in DOMAIN decoded THEN [raised |-> credentials_exception]
        ELSE LET payload == decoded.payload
                 username == payload_get(payload, "sub")
                 user == get_user_from_db(pool, username)
             IN  IF username = None THEN [raised |-> credentials_exception]
                 ELSE IF user = NoUser THEN [raised |-> credentials_exception]
                 ELSE [user |-> user]

get_current_user(token, pool) ==
    LET decoded == jwt_decode(token, SECRET_KEY)
    IN  IF "error" \in DOMAIN decoded THEN [raised |-> credentials_exception]
        ELSE LET payload == decoded.payload
                 username == payload_get(payload, "sub")
                 user == get_user_from_db(pool, username)
             IN  IF payload_get(payload, "type") # "access"
                     THEN [raised |-> credentials_exception]
                 ELSE IF username = None THEN [raised |-> credentials_exception]
                 ELSE IF user = NoUser THEN [raised |-> credentials_exception]
                 ELSE [user |-> user]

\* Depends(get_current_user): the framework resolves oauth2_scheme first and
\* get_current_user on the token it yields.
Depends_get_current_user(authorization, pool) ==
    LET scheme == oauth2_scheme(authorization)
    IN  IF "raised" \in DOMAIN scheme THEN scheme
        ELSE get_current_user(scheme.token, pool)

\* ------------------------------------------------------------------------
\* Inputs
\* ------------------------------------------------------------------------
Absent == "Absent"

\* A JWT payload with the claims that are present.
Claims(sub, type, exp) ==
    LET present == (IF sub # Absent THEN {"sub"} ELSE {})
                   \cup (IF type # Absent THEN {"type"} ELSE {})
                   \cup (IF exp >= 0 THEN {"exp"} ELSE {})
    IN  [name \in present |->
            IF name = "sub" THEN sub ELSE IF name = "type" THEN type ELSE exp]

TokenSubs == Usernames \cup {Absent}
TokenTypes == {"access", "refresh", Absent}
TokenExps == {ACCESS_TOKEN_EXPIRE_MINUTES, MaxNow + ACCESS_TOKEN_EXPIRE_MINUTES, -1}

\* Every token a client can present: any claims under any key, or no JWT.
TokenKeys == {SECRET_KEY, "another_key"}

Tokens ==
    {jwt_encode(Claims(sub, type, exp), key) :
        sub \in TokenSubs, type \in TokenTypes, exp \in TokenExps, key \in TokenKeys}
    \cup {MalformedToken}

Bearer(token) == [scheme |-> "bearer", param |-> token]

Authorizations ==
    {NoAuthorization, [scheme |-> "basic", param |-> MalformedToken]}
    \cup {Bearer(token) : token \in Tokens}

\* The callers of the /products endpoints: the access token of each username
\* (registered or not), a refresh token, and no header.
AccessTokenOf(username) ==
    jwt_encode(Claims(username, "access", MaxNow + ACCESS_TOKEN_EXPIRE_MINUTES), SECRET_KEY)

ProductCallers ==
    {Bearer(AccessTokenOf(username)) : username \in Usernames}
    \cup {NoAuthorization,
          Bearer(jwt_encode(Claims("alice", "refresh", MaxNow + ACCESS_TOKEN_EXPIRE_MINUTES),
                            SECRET_KEY))}

UserCreate == [username : Usernames, password : Passwords]
OAuth2PasswordRequestForm == [username : Usernames, password : Passwords]

\* The registrations of the callers of /products: the password plays no
\* part there.
ProductUsers == {user_in \in UserCreate : user_in.password = "pw1"}

\* The user of the WebSocket tests (src/tests/test_websocket.py:12-24); no
\* other user registers, so a token of another name is a token of nobody.
WSUsers == {user_in \in UserCreate : user_in.username = "alice" /\ user_in.password = "pw1"}

\* The JSON body of POST /products: ProductCreate's fields, and possibly an
\* owner_username the client adds.
ProductBodies ==
    {[name |-> "pc", price |-> 10],
     [name |-> "laptop", price |-> 20, owner_username |-> "bob"]}

ProductIds == 1..(MaxProducts + 1)

\* The arguments of the addProduct mutation (src/tests/test_graphql.py:25, 48).
AddProductArgs ==
    {[name |-> "Hacker Item", price |-> 0, description |-> "Hack"],
     [name |-> "Test Item", price |-> 100, description |-> None]}

\* The query parameters of the compute requests.
ComputeNumbers == 0..MaxNumber

\* ------------------------------------------------------------------------
\* Steps that are not HTTP requests leave this behind as request/response.
\* ------------------------------------------------------------------------
\* A WebSocket whose handshake has not been answered, and the application
\* before any background computation was scheduled.
NewWebSocket == [state |-> "connecting", path |-> None, username |-> None, code |-> 0]
NoComputation == [state |-> "none"]

\* app.state before connect_to_db assigned a pool, and connect_to_db before
\* the application's startup called it.
NoPool == [none |-> TRUE]
NotStarted == [state |-> "none"]

\* The clients that send concurrent requests, a client with no request in
\* flight, and a handler that is not inside manager.broadcast.
Clients == {"c1", "c2"}
Broadcasters == Sockets \cup {"task"}
NoRequest == [pc |-> "none"]
NoBroadcast == [pc |-> "none"]

NoResponse == [status_code |-> 0, headers |-> NoHeaders, body |-> [none |-> TRUE]]

Init ==
    /\ users = {}
    /\ products = {}
    /\ next_id = 1
    /\ tasks = <<>>
    /\ active_connections = <<>>
    /\ received = [websocket \in Sockets |-> <<>>]
    /\ websockets = [websocket \in Sockets |-> NewWebSocket]
    /\ sent = <<>>
    /\ refresh_tokens = {}
    /\ calculations = <<>>
    /\ computation = NoComputation
    /\ now = 0
    /\ request = [op |-> "none"]
    /\ response = NoResponse
    /\ handler_ran = FALSE
    /\ bucket = <<>>
    /\ avatar_urls = [username \in Usernames |-> None]
    /\ app_state_pool = NoPool
    /\ startup = NotStarted
    /\ registering = [client \in Clients |-> NoRequest]
    /\ broadcasting = [broadcaster \in Broadcasters |-> NoBroadcast]

\* ------------------------------------------------------------------------
\* POST /auth/register (src/auth.py:123-137)
\* ------------------------------------------------------------------------
\* register without the lookup of the username: the row is written and
\* tokens are issued whether or not the username is taken.
register_no_check(user_in) ==
    /\ request' = [op |-> "POST /auth/register", user_in |-> user_in]
    /\ handler_ran' = TRUE
    /\ UNCHANGED other_vars
    /\ users' = {row \in users : row.username # user_in.username}
                  \cup {[username |-> user_in.username,
                         hashed_password |-> get_password_hash(user_in.password)]}
    /\ response' = JSONResponse(200, create_tokens([sub |-> user_in.username]))
    /\ sent' = <<>>
    /\ UNCHANGED <<products, next_id, tasks, ws_vars, main_vars, now>>

\* register that issues the tokens without writing the row.
register_no_insert(user_in) ==
    /\ request' = [op |-> "POST /auth/register", user_in |-> user_in]
    /\ handler_ran' = TRUE
    /\ UNCHANGED other_vars
    /\ IF get_user_from_db(users, user_in.username) # NoUser
       THEN response' = HTTPException(400, DETAIL_USER_EXISTS, NoHeaders)
       ELSE response' = JSONResponse(200, create_tokens([sub |-> user_in.username]))
    /\ sent' = <<>>
    /\ UNCHANGED <<users, products, next_id, tasks, ws_vars, main_vars, now>>

register(user_in) ==
    /\ request' = [op |-> "POST /auth/register", user_in |-> user_in]
    /\ handler_ran' = TRUE
    /\ UNCHANGED other_vars
    /\ IF get_user_from_db(users, user_in.username) # NoUser
       THEN /\ response' = HTTPException(400, DETAIL_USER_EXISTS, NoHeaders)
            /\ UNCHANGED users
       ELSE LET hashed_password == get_password_hash(user_in.password)
            IN  /\ users' = users \cup {[username |-> user_in.username,
                                         hashed_password |-> hashed_password]}
                /\ response' = JSONResponse(200, create_tokens([sub |-> user_in.username]))
    /\ sent' = <<>>
    /\ UNCHANGED <<products, next_id, tasks, ws_vars, main_vars, now>>

\* ------------------------------------------------------------------------
\* POST /auth/login (src/auth.py:141-153)
\* ------------------------------------------------------------------------
\* login_for_token that skips the password check for a known username.
login_for_token_no_verify(form_data) ==
    LET user == get_user_from_db(users, form_data.username)
    IN  /\ request' = [op |-> "POST /auth/login", form_data |-> form_data]
        /\ handler_ran' = TRUE
        /\ UNCHANGED other_vars
        /\ IF user = NoUser
           THEN response' = HTTPException(401, DETAIL_BAD_LOGIN, WWW_AUTHENTICATE_BEARER)
           ELSE response' = JSONResponse(200, create_tokens([sub |-> user.username]))
        /\ sent' = <<>>
        /\ UNCHANGED <<users, products, next_id, tasks, ws_vars, main_vars, now>>

\* login_for_token that answers an unknown username with its own error.
login_for_token_user_not_found(form_data) ==
    LET user == get_user_from_db(users, form_data.username)
    IN  /\ request' = [op |-> "POST /auth/login", form_data |-> form_data]
        /\ handler_ran' = TRUE
        /\ UNCHANGED other_vars
        /\ IF user = NoUser
           THEN response' = HTTPException(404, "User not found", NoHeaders)
           ELSE IF ~verify_password(form_data.password, user.hashed_password)
           THEN response' = HTTPException(401, DETAIL_BAD_LOGIN, WWW_AUTHENTICATE_BEARER)
           ELSE response' = JSONResponse(200, create_tokens([sub |-> user.username]))
        /\ sent' = <<>>
        /\ UNCHANGED <<users, products, next_id, tasks, ws_vars, main_vars, now>>

login_for_token(form_data) ==
    LET user == get_user_from_db(users, form_data.username)
    IN  /\ request' = [op |-> "POST /auth/login", form_data |-> form_data]
        /\ handler_ran' = TRUE
        /\ UNCHANGED other_vars
        /\ IF user = NoUser \/ ~verify_password(form_data.password, user.hashed_password)
           THEN response' = HTTPException(401, DETAIL_BAD_LOGIN, WWW_AUTHENTICATE_BEARER)
           ELSE response' = JSONResponse(200, create_tokens([sub |-> user.username]))
        /\ sent' = <<>>
        /\ UNCHANGED <<users, products, next_id, tasks, ws_vars, main_vars, now>>

\* ------------------------------------------------------------------------
\* GET /auth/protected (src/auth.py:163-167)
\* ------------------------------------------------------------------------
protected_route(authorization) ==
    LET current_user == Depends_get_current_user(authorization, users)
    IN  /\ request' = [op |-> "GET /auth/protected", authorization |-> authorization]
        /\ IF "raised" \in DOMAIN current_user
           THEN /\ response' = current_user.raised
                /\ handler_ran' = FALSE
                /\ UNCHANGED other_vars
           ELSE LET username == current_user.user.username
                IN  /\ response' = JSONResponse(200,
                            [message |-> <<"Privet, ", username, "! Eto zashchishchennaya zona">>])
                    /\ handler_ran' = TRUE
                    /\ UNCHANGED other_vars
        /\ sent' = <<>>
        /\ UNCHANGED <<users, products, next_id, tasks, ws_vars, main_vars, now>>

\* ------------------------------------------------------------------------
\* Pydantic models of the /products router (src/routers/products.py:19-27):
\* a model keeps its declared fields of the data it is built from.
\* ------------------------------------------------------------------------
Product(row) ==
    [id |-> row.id, name |-> row.name, price |-> row.price,
     owner_username |-> row.owner_username]

ProductCreate(body) == [name |-> body.name, price |-> body.price]

\* ------------------------------------------------------------------------
\* GET /products (src/routers/products.py:32-47)
\* ------------------------------------------------------------------------
\* get_products whose SELECT has no WHERE clause.
get_products_all(authorization) ==
    LET current_user == Depends_get_current_user(authorization, users)
    IN  /\ request' = [op |-> "GET /products", authorization |-> authorization]
        /\ IF "raised" \in DOMAIN current_user
           THEN /\ response' = current_user.raised
                /\ handler_ran' = FALSE
                /\ UNCHANGED other_vars
           ELSE /\ response' = JSONResponse(200, {Product(p) : p \in products})
                /\ handler_ran' = TRUE
                /\ UNCHANGED other_vars
        /\ sent' = <<>>
        /\ UNCHANGED <<users, products, next_id, tasks, ws_vars, main_vars, now>>

get_products(authorization) ==
    LET current_user == Depends_get_current_user(authorization, users)
    IN  /\ request' = [op |-> "GET /products", authorization |-> authorization]
        /\ IF "raised" \in DOMAIN current_user
           THEN /\ response' = current_user.raised
                /\ handler_ran' = FALSE
                /\ UNCHANGED other_vars
           ELSE LET username == current_user.user.username
                    products_records == {p \in products : p.owner_username = username}
                IN  /\ response' = JSONResponse(200, {Product(p) : p \in products_records})
                    /\ handler_ran' = TRUE
                    /\ UNCHANGED other_vars
        /\ sent' = <<>>
        /\ UNCHANGED <<users, products, next_id, tasks, ws_vars, main_vars, now>>

\* ------------------------------------------------------------------------
\* POST /products (src/routers/products.py:52-70)
\* ------------------------------------------------------------------------
\* create_product that takes the owner from the request body when the
\* body names one.
create_product_owner_from_body(authorization, body) ==
    LET current_user == Depends_get_current_user(authorization, users)
    IN  /\ request' = [op |-> "POST /products", authorization |-> authorization,
                       body |-> body]
        /\ IF "raised" \in DOMAIN current_user
           THEN /\ response' = current_user.raised
                /\ handler_ran' = FALSE
                /\ UNCHANGED other_vars
                /\ UNCHANGED <<products, next_id, tasks>>
           ELSE LET username == IF "owner_username" \in DOMAIN body
                                THEN body.owner_username
                                ELSE current_user.user.username
                    product_data == ProductCreate(body)
                    new_product_record ==
                        [id |-> next_id, name |-> product_data.name, description |-> None,
                         price |-> product_data.price, owner_username |-> username]
                    new_product == Product(new_product_record)
                IN  /\ next_id <= MaxProducts
                    /\ Len(tasks) < MaxTasks
                    /\ products' = products \cup {new_product_record}
                    /\ next_id' = next_id + 1
                    /\ tasks' = Append(tasks, <<"Novyj produkt: ", new_product>>)
                    /\ response' = JSONResponse(200, new_product)
                    /\ handler_ran' = TRUE
                    /\ UNCHANGED other_vars
        /\ sent' = <<>>
        /\ UNCHANGED <<users, ws_vars, main_vars, now>>

create_product(authorization, body) ==
    LET current_user == Depends_get_current_user(authorization, users)
    IN  /\ request' = [op |-> "POST /products", authorization |-> authorization,
                       body |-> body]
        /\ IF "raised" \in DOMAIN current_user
           THEN /\ response' = current_user.raised
                /\ handler_ran' = FALSE
                /\ UNCHANGED other_vars
                /\ UNCHANGED <<products, next_id, tasks>>
           ELSE LET username == current_user.user.username
                    product_data == ProductCreate(body)
                    new_product_record ==
                        [id |-> next_id, name |-> product_data.name, description |-> None,
                         price |-> product_data.price, owner_username |-> username]
                    new_product == Product(new_product_record)
                IN  /\ next_id <= MaxProducts
                    /\ Len(tasks) < MaxTasks
                    /\ products' = products \cup {new_product_record}
                    /\ next_id' = next_id + 1
                    /\ tasks' = Append(tasks, <<"Novyj produkt: ", new_product>>)
                    /\ response' = JSONResponse(200, new_product)
                    /\ handler_ran' = TRUE
                    /\ UNCHANGED other_vars
        /\ sent' = <<>>
        /\ UNCHANGED <<users, ws_vars, main_vars, now>>

\* ------------------------------------------------------------------------
\* DELETE /products/{product_id} (src/routers/products.py:74-111)
\* ------------------------------------------------------------------------
\* delete_product without the test of the owner.
delete_product_no_owner_check(authorization, product_id) ==
    LET current_user == Depends_get_current_user(authorization, users)
    IN  /\ request' = [op |-> "DELETE /products/{product_id}",
                       authorization |-> authorization, product_id |-> product_id]
        /\ IF "raised" \in DOMAIN current_user
           THEN /\ response' = current_user.raised
                /\ handler_ran' = FALSE
                /\ UNCHANGED other_vars
                /\ UNCHANGED <<products, tasks>>
           ELSE LET username == current_user.user.username
                    product_rows == {p \in products : p.id = product_id}
                IN  /\ handler_ran' = TRUE
                    /\ UNCHANGED other_vars
                    /\ IF product_rows = {}
                       THEN /\ response' = HTTPException(404, DETAIL_PRODUCT_NOT_FOUND, NoHeaders)
                            /\ UNCHANGED <<products, tasks>>
                       ELSE /\ Len(tasks) < MaxTasks
                            /\ products' = {p \in products : p.id # product_id}
                            /\ tasks' = Append(tasks, <<"Produkt ID ", product_id,
                                                        " byl udalen polzovatelem ", username>>)
                            /\ response' = [status_code |-> 204, headers |-> NoHeaders,
                                            body |-> [none |-> TRUE]]
        /\ sent' = <<>>
        /\ UNCHANGED <<users, next_id, ws_vars, main_vars, now>>

\* delete_product whose DELETE names the owner instead of the id.
delete_product_by_owner(authorization, product_id) ==
    LET current_user == Depends_get_current_user(authorization, users)
    IN  /\ request' = [op |-> "DELETE /products/{product_id}",
                       authorization |-> authorization, product_id |-> product_id]
        /\ IF "raised" \in DOMAIN current_user
           THEN /\ response' = current_user.raised
                /\ handler_ran' = FALSE
                /\ UNCHANGED other_vars
                /\ UNCHANGED <<products, tasks>>
           ELSE LET username == current_user.user.username
                    product_rows == {p \in products : p.id = product_id}
                IN  /\ handler_ran' = TRUE
                    /\ UNCHANGED other_vars
                    /\ IF product_rows = {}
                       THEN /\ response' = HTTPException(404, DETAIL_PRODUCT_NOT_FOUND, NoHeaders)
                            /\ UNCHANGED <<products, tasks>>
                       ELSE IF \E product_row \in product_rows :
                                   product_row.owner_username # username
                       THEN /\ response' = HTTPException(403, DETAIL_NOT_OWNER, NoHeaders)
                            /\ UNCHANGED <<products, tasks>>
                       ELSE /\ Len(tasks) < MaxTasks
                            /\ products' = {p \in products : p.owner_username # username}
                            /\ tasks' = Append(tasks, <<"Produkt ID ", product_id,
                                                        " byl udalen polzovatelem ", username>>)
                            /\ response' = [status_code |-> 204, headers |-> NoHeaders,
                                            body |-> [none |-> TRUE]]
        /\ sent' = <<>>
        /\ UNCHANGED <<users, next_id, ws_vars, main_vars, now>>

delete_product(authorization, product_id) ==
    LET current_user == Depends_get_current_user(authorization, users)
    IN  /\ request' = [op |-> "DELETE /products/{product_id}",
                       authorization |-> authorization, product_id |-> product_id]
        /\ IF "raised" \in DOMAIN current_user
           THEN /\ response' = current_user.raised
                /\ handler_ran' = FALSE
                /\ UNCHANGED other_vars
                /\ UNCHANGED <<products, tasks>>
           ELSE LET username == current_user.user.username
                    product_rows == {p \in products : p.id = product_id}
                IN  /\ handler_ran' = TRUE
                    /\ UNCHANGED other_vars
                    /\ IF product_rows = {}
                       THEN /\ response' = HTTPException(404, DETAIL_PRODUCT_NOT_FOUND, NoHeaders)
                            /\ UNCHANGED <<products, tasks>>
                       ELSE IF \E product_row \in product_rows :
                                   product_row.owner_username # username
                       THEN /\ response' = HTTPException(403, DETAIL_NOT_OWNER, NoHeaders)
                            /\ UNCHANGED <<products, tasks>>
                       ELSE /\ Len(tasks) < MaxTasks
                            /\ products' = {p \in products : p.id # product_id}
                            /\ tasks' = Append(tasks, <<"Produkt ID ", product_id,
                                                        " byl udalen polzovatelem ", username>>)
                            /\ response' = [status_code |-> 204, headers |-> NoHeaders,
                                            body |-> [none |-> TRUE]]
        /\ sent' = <<>>
        /\ UNCHANGED <<users, next_id, ws_vars, main_vars, now>>

\* ------------------------------------------------------------------------
\* ConnectionManager.broadcast (src/websocket.py:39-43)
\* ------------------------------------------------------------------------
\* self is the manager's list of connections when the call is made.
RECURSIVE Deliver(_, _, _)
Deliver(inbox, self, message) ==
    IF self = <<>> THEN inbox
    ELSE Deliver([inbox EXCEPT ![Head(self)] = Append(@, message)], Tail(self), message)

\* broadcast that stops before the last connection.
broadcast_but_last(self, message) ==
    /\ sent' = [i \in 1..(Len(self) - 1) |-> <<self[i], message>>]
    /\ received' = Deliver(received, SubSeq(self, 1, Len(self) - 1), message)

broadcast(self, message) ==
    /\ sent' = [i \in 1..Len(self) |-> <<self[i], message>>]
    /\ received' = Deliver(received, self, message)

\* The framework runs a scheduled background task after its response was
\* sent: manager.broadcast(message).
run_background_task ==
    /\ tasks # <<>>
    /\ broadcast(active_connections, Head(tasks))
    /\ tasks' = Tail(tasks)
    /\ request' = [op |-> "background task"]
    /\ response' = NoResponse
    /\ handler_ran' = FALSE
    /\ UNCHANGED other_vars
    /\ UNCHANGED <<users, products, next_id, active_connections, websockets,
                   main_vars, now>>

\* ------------------------------------------------------------------------
\* ConnectionManager.connect, ConnectionManager.disconnect
\* (src/websocket.py:26-36): the list after the call.
\* ------------------------------------------------------------------------
connect(self, websocket) == Append(self, websocket)

disconnect(self, websocket) ==
    IF websocket \in Range(self)
    THEN LET first == CHOOSE i \in DOMAIN self :
                          /\ self[i] = websocket
                          /\ \A j \in 1..(i - 1) : self[j] # websocket
         IN  SubSeq(self, 1, first - 1) \o SubSeq(self, first + 1, Len(self))
    ELSE self

\* ------------------------------------------------------------------------
\* WebSocket endpoints (src/websocket.py:51-185)
\* ------------------------------------------------------------------------
WS_1008_POLICY_VIOLATION == 1008

PATH_NOTIFICATIONS == "/ws/notifications"
PATH_CHAT == "/ws/chat"
PATH_PRODUCTS == "/ws/products"

\* websocket_authenticate that lets every signed, unexpired token pass.
websocket_authenticate_signature_only(token, pool) ==
    LET decoded == jwt_decode(token, SECRET_KEY)
    IN  IF "error" \in DOMAIN decoded
        THEN [close |-> WS_1008_POLICY_VIOLATION]
        ELSE LET username == payload_get(decoded.payload, "sub")
             IN  [username |-> username]

\* The checks of the token before the connection is accepted
\* (src/websocket.py:61-79, 105-119, 143-165): the close code, or the
\* username the token names.
websocket_authenticate(token, pool) ==
    LET decoded == jwt_decode(token, SECRET_KEY)
    IN  IF "error" \in DOMAIN decoded
        THEN [close |-> WS_1008_POLICY_VIOLATION]
        ELSE IF payload_get(decoded.payload, "type") # "access"
        THEN [close |-> WS_1008_POLICY_VIOLATION]
        ELSE LET username == payload_get(decoded.payload, "sub")
             IN  IF username = None \/ get_user_from_db(pool, username) = NoUser
                 THEN [close |-> WS_1008_POLICY_VIOLATION]
                 ELSE [username |-> username]

\* websocket_open that broadcasts the join text before manager.connect.
websocket_open_broadcast_first(path, websocket, token, join_text) ==
    LET checked == websocket_authenticate(token, users)
    IN  /\ websockets[websocket].state = "connecting"
        /\ request' = [op |-> "WS connect", path |-> path,
                       websocket |-> websocket, token |-> token]
        /\ response' = NoResponse
        /\ IF "close" \in DOMAIN checked
           THEN /\ websockets' = [websockets EXCEPT ![websocket] =
                        [state |-> "closed", path |-> path, username |-> None,
                         code |-> checked.close]]
                /\ sent' = <<>>
                /\ UNCHANGED <<active_connections, received>>
           ELSE /\ websockets' = [websockets EXCEPT ![websocket] =
                        [state |-> "accepted", path |-> path,
                         username |-> checked.username, code |-> 0]]
                /\ active_connections' = connect(active_connections, websocket)
                /\ broadcast(active_connections, join_text[checked.username])
        /\ UNCHANGED <<users, products, next_id, tasks, main_vars, now>>

\* The handler up to its receive loop: close with 1008, or
\* manager.connect(websocket) followed by the broadcast of the join text.
websocket_open(path, websocket, token, join_text) ==
    LET checked == websocket_authenticate(token, users)
    IN  /\ websockets[websocket].state = "connecting"
        /\ request' = [op |-> "WS connect", path |-> path,
                       websocket |-> websocket, token |-> token]
        /\ response' = NoResponse
        /\ IF "close" \in DOMAIN checked
           THEN /\ websockets' = [websockets EXCEPT ![websocket] =
                        [state |-> "closed", path |-> path, username |-> None,
                         code |-> checked.close]]
                /\ sent' = <<>>
                /\ UNCHANGED <<active_connections, received>>
           ELSE /\ websockets' = [websockets EXCEPT ![websocket] =
                        [state |-> "accepted", path |-> path,
                         username |-> checked.username, code |-> 0]]
                /\ active_connections' = connect(active_connections, websocket)
                /\ broadcast(connect(active_connections, websocket), join_text[checked.username])
        /\ UNCHANGED <<users, products, next_id, tasks, main_vars, now>>

\* The join texts, by the username they name.
NotificationJoined ==
    [username \in Usernames \cup {None} |->
        <<"Klient ", username, " podklyuchilsya k uvedomleniyam">>]
ChatJoined ==
    [username \in Usernames \cup {None} |->
        <<"Klient ", username, " podklyuchilsya k chatu">>]
ProductsJoined ==
    [username \in Usernames \cup {None} |->
        <<"Klient '", username, "' prisoedinilsya k chatu.">>]

\* The chat line that takes the name of the sender from the text received.
ChatLine_username_from_body(username, data) == <<data, ": ", data>>

ChatLine(username, data) == <<username, ": ", data>>

NotificationLeft(username) == <<"Klient ", username, " otklyuchilsya">>
ProductsLeft(username) == <<"Klient '", username, "' pokinul chat.">>

\* The texts a client sends.
ClientTexts == {"hi"}

\* The loop body after a text arrived, and the handler of WebSocketDisconnect.
Accepted(path, websocket) ==
    /\ websockets[websocket].state = "accepted"
    /\ websockets[websocket].path = path

websocket_receive_text(path, websocket, data) ==
    /\ Accepted(path, websocket)
    /\ \A connection \in Sockets : Len(received[connection]) < MaxReceived
    /\ request' = [op |-> "WS receive_text", path |-> path,
                   websocket |-> websocket, data |-> data]
    /\ response' = NoResponse
    /\ handler_ran' = TRUE
    /\ UNCHANGED other_vars
    /\ UNCHANGED <<users, products, next_id, tasks, active_connections, websockets,
                   main_vars, now>>

websocket_disconnected(path, websocket) ==
    /\ Accepted(path, websocket)
    /\ request' = [op |-> "WS disconnect", path |-> path, websocket |-> websocket]
    /\ response' = NoResponse
    /\ handler_ran' = TRUE
    /\ UNCHANGED other_vars
    /\ websockets' = [websockets EXCEPT ![websocket].state = "disconnected"]
    /\ active_connections' = disconnect(active_connections, websocket)
    /\ UNCHANGED <<users, products, next_id, tasks, main_vars, now>>

\* /ws/notifications (src/websocket.py:51-92): a received text is dropped.
websocket_notification(websocket, token) ==
    /\ websocket_open(PATH_NOTIFICATIONS, websocket, token, NotificationJoined)
    /\ handler_ran' = TRUE
    /\ UNCHANGED other_vars

websocket_notification_receive_text(websocket, data) ==
    /\ websocket_receive_text(PATH_NOTIFICATIONS, websocket, data)
    /\ sent' = <<>>
    /\ UNCHANGED received

websocket_notification_disconnect(websocket) ==
    /\ websocket_disconnected(PATH_NOTIFICATIONS, websocket)
    /\ broadcast(disconnect(active_connections, websocket),
                 NotificationLeft(websockets[websocket].username))

\* /ws/chat (src/websocket.py:95-130).  On a disconnect the handler awaits
\* the result of manager.disconnect, which is None: the connection is
\* removed, the await raises TypeError and the leave text is never sent.
websocket_chat(websocket, token) ==
    /\ websocket_open(PATH_CHAT, websocket, token, ChatJoined)
    /\ handler_ran' = TRUE
    /\ UNCHANGED other_vars

websocket_chat_receive_text(websocket, data) ==
    /\ websocket_receive_text(PATH_CHAT, websocket, data)
    /\ broadcast(active_connections, ChatLine(websockets[websocket].username, data))

websocket_chat_disconnect(websocket) ==
    /\ websocket_disconnected(PATH_CHAT, websocket)
    /\ sent' = <<>>
    /\ UNCHANGED received

\* /ws/products (src/websocket.py:138-184)
websocket_products(websocket, token) ==
    /\ websocket_open(PATH_PRODUCTS, websocket, token, ProductsJoined)
    /\ handler_ran' = TRUE
    /\ UNCHANGED other_vars

websocket_products_receive_text(websocket, data) ==
    /\ websocket_receive_text(PATH_PRODUCTS, websocket, data)
    /\ broadcast(active_connections, ChatLine(websockets[websocket].username, data))

websocket_products_disconnect(websocket) ==
    /\ websocket_disconnected(PATH_PRODUCTS, websocket)
    /\ broadcast(disconnect(active_connections, websocket),
                 ProductsLeft(websockets[websocket].username))

\* ------------------------------------------------------------------------
\* The single-file application (src/main.py).  It has its own users
\* lookup, its own create_tokens, which stores the refresh token, its own
\* get_current_user and its own ConnectionManager; main_ is put before the
\* names src/auth.py uses too.
\* ------------------------------------------------------------------------
DETAIL_MAIN_USER_EXISTS == "Polzovatel uzhe sushchestvuet"
DETAIL_INVALID_REFRESH == "Nevalidnyj refresh-token"
DETAIL_INVALID_TOKEN == "Nevernyj token"
DETAIL_REFRESH_NOT_SAVED == "Oshibka sohraneniya refresh-tokena"

\* await get_user(username) (src/main.py:57-73)
main_get_user(username) ==
    IF \E user \in users : user.username = username
    THEN LET user == CHOOSE user \in users : user.username = username
         IN  [username |-> user.username, hashed_password |-> user.hashed_password]
    ELSE NoUser

\* get_user(username) that is not awaited: the coroutine object.
coroutine_get_user(username) == [coroutine |-> "get_user", args |-> <<username>>]

\* create_tokens (src/main.py:109-146): the pair is encoded, the refresh
\* token is inserted into refresh_tokens and committed; when the INSERT
\* fails (saved = FALSE) it is rolled back and 500 is raised.
main_create_tokens(data, saved) ==
    LET access_expire == now + ACCESS_TOKEN_EXPIRE_MINUTES
        refresh_expire == now + REFRESH_TOKEN_EXPIRE_DAYS * MinutesPerDay
        access_token == jwt_encode([sub |-> data.sub, exp |-> access_expire,
                                    type |-> "access"], SECRET_KEY)
        refresh_token_ == jwt_encode([sub |-> data.sub, exp |-> refresh_expire,
                                      type |-> "refresh"], SECRET_KEY)
    IN  IF saved
        THEN /\ refresh_tokens' = refresh_tokens \cup
                    {[username |-> data.sub, refresh_token |-> refresh_token_,
                      expiry |-> refresh_expire]}
             /\ response' = JSONResponse(200, [access_token |-> access_token,
                                               refresh_token |-> refresh_token_,
                                               token_type |-> "bearer"])
        ELSE /\ UNCHANGED refresh_tokens
             /\ response' = HTTPException(500, DETAIL_REFRESH_NOT_SAVED, NoHeaders)

\* POST /register (src/main.py:151-166)
main_register(user, saved) ==
    /\ request' = [op |-> "POST /register", user |-> user]
    /\ handler_ran' = TRUE
    /\ UNCHANGED other_vars
    /\ IF main_get_user(user.username) # NoUser
       THEN /\ response' = HTTPException(400, DETAIL_MAIN_USER_EXISTS, NoHeaders)
            /\ UNCHANGED <<users, refresh_tokens>>
       ELSE LET hashed_password == get_password_hash(user.password)
            IN  /\ users' = users \cup {[username |-> user.username,
                                         hashed_password |-> hashed_password]}
                /\ main_create_tokens([sub |-> user.username], saved)
    /\ sent' = <<>>
    /\ UNCHANGED <<products, next_id, tasks, ws_vars, calculations, computation, now>>

\* POST /refresh (src/main.py:185-211)
\* refresh_token without the test of the type claim.
refresh_token_any_type(token, saved) ==
    LET main_credentials_exception == HTTPException(401, DETAIL_INVALID_REFRESH, NoHeaders)
        decoded == jwt_decode(token, SECRET_KEY)
    IN  /\ request' = [op |-> "POST /refresh", token |-> token]
        /\ handler_ran' = TRUE
        /\ UNCHANGED other_vars
        /\ IF "error" \in DOMAIN decoded
           THEN /\ response' = main_credentials_exception
                /\ UNCHANGED refresh_tokens
           ELSE LET username == payload_get(decoded.payload, "sub")
                IN  IF username = None
                    THEN /\ response' = main_credentials_exception
                         /\ UNCHANGED refresh_tokens
                    ELSE IF main_get_user(username) = NoUser
                    THEN /\ response' = main_credentials_exception
                         /\ UNCHANGED refresh_tokens
                    ELSE main_create_tokens([sub |-> username], saved)
        /\ sent' = <<>>
        /\ UNCHANGED <<users, products, next_id, tasks, ws_vars, calculations,
                       computation, now>>

refresh_token(token, saved) ==
    LET main_credentials_exception == HTTPException(401, DETAIL_INVALID_REFRESH, NoHeaders)
        decoded == jwt_decode(token, SECRET_KEY)
    IN  /\ request' = [op |-> "POST /refresh", token |-> token]
        /\ handler_ran' = TRUE
        /\ UNCHANGED other_vars
        /\ IF "error" \in DOMAIN decoded
           THEN /\ response' = main_credentials_exception
                /\ UNCHANGED refresh_tokens
           ELSE IF payload_get(decoded.payload, "type") # "refresh"
           THEN /\ response' = main_credentials_exception
                /\ UNCHANGED refresh_tokens
           ELSE LET username == payload_get(decoded.payload, "sub")
                IN  IF username = None
                    THEN /\ response' = main_credentials_exception
                         /\ UNCHANGED refresh_tokens
                    ELSE IF main_get_user(username) = NoUser
                    THEN /\ response' = main_credentials_exception
                         /\ UNCHANGED refresh_tokens
                    ELSE main_create_tokens([sub |-> username], saved)
        /\ sent' = <<>>
        /\ UNCHANGED <<users, products, next_id, tasks, ws_vars, calculations,
                       computation, now>>

\* get_current_user (src/main.py:232-240): the username of the token, with
\* no test of the type claim and no lookup of the user.
main_get_current_user(token) ==
    LET decoded == jwt_decode(token, SECRET_KEY)
    IN  IF "error" \in DOMAIN decoded
        THEN [raised |-> HTTPException(401, DETAIL_INVALID_TOKEN, NoHeaders)]
        ELSE LET username == payload_get(decoded.payload, "sub")
             IN  IF username = None
                 THEN [raised |-> HTTPException(401, DETAIL_INVALID_TOKEN, NoHeaders)]
                 ELSE [username |-> username]

Depends_main_get_current_user(authorization) ==
    LET scheme == oauth2_scheme(authorization)
    IN  IF "raised" \in DOMAIN scheme THEN scheme
        ELSE main_get_current_user(scheme.token)

\* GET /products/ (src/main.py:244-266)
main_get_products(authorization) ==
    LET current_user == Depends_main_get_current_user(authorization)
    IN  /\ request' = [op |-> "GET /products/", authorization |-> authorization]
        /\ IF "raised" \in DOMAIN current_user
           THEN /\ response' = current_user.raised
                /\ handler_ran' = FALSE
                /\ UNCHANGED other_vars
           ELSE LET rows == {p \in products : p.owner_username = current_user.username}
                IN  /\ response' = JSONResponse(200,
                            {[id |-> p.id, name |-> p.name, price |-> p.price,
                              owner_username |-> p.owner_username] : p \in rows})
                    /\ handler_ran' = TRUE
                    /\ UNCHANGED other_vars
        /\ sent' = <<>>
        /\ UNCHANGED <<users, products, next_id, tasks, ws_vars, main_vars, now>>

\* /ws/products of src/main.py (src/main.py:420-459).  get_user(username)
\* is called without await, so what is compared with None is the coroutine
\* object, whatever the users table holds.
websocket_endpoint(websocket, token) ==
    LET decoded == jwt_decode(token, SECRET_KEY)
        closed == [state |-> "closed", path |-> PATH_PRODUCTS, username |-> None,
                   code |-> WS_1008_POLICY_VIOLATION]
    IN  /\ websockets[websocket].state = "connecting"
        /\ request' = [op |-> "WS connect", path |-> PATH_PRODUCTS,
                       websocket |-> websocket, token |-> token]
        /\ response' = NoResponse
        /\ handler_ran' = TRUE
        /\ UNCHANGED other_vars
        /\ IF "error" \in DOMAIN decoded
           THEN /\ websockets' = [websockets EXCEPT ![websocket] = closed]
                /\ sent' = <<>>
                /\ UNCHANGED <<active_connections, received>>
           ELSE IF payload_get(decoded.payload, "type") # "access"
           THEN /\ websockets' = [websockets EXCEPT ![websocket] = closed]
                /\ sent' = <<>>
                /\ UNCHANGED <<active_connections, received>>
           ELSE LET username == payload_get(decoded.payload, "sub")
                IN  IF username = None \/ coroutine_get_user(username) = NoUser
                    THEN /\ websockets' = [websockets EXCEPT ![websocket] = closed]
                         /\ sent' = <<>>
                         /\ UNCHANGED <<active_connections, received>>
                    ELSE /\ websockets' = [websockets EXCEPT ![websocket] =
                                [state |-> "accepted", path |-> PATH_PRODUCTS,
                                 username |-> username, code |-> 0]]
                         /\ active_connections' = connect(active_connections, websocket)
                         /\ broadcast(connect(active_connections, websocket),
                                      ProductsJoined[username])
        /\ UNCHANGED <<users, products, next_id, tasks, main_vars, now>>

websocket_endpoint_receive_text(websocket, data) ==
    /\ websocket_receive_text(PATH_PRODUCTS, websocket, data)
    /\ broadcast(active_connections, ChatLine(websockets[websocket].username, data))

websocket_endpoint_disconnect(websocket) ==
    /\ websocket_disconnected(PATH_PRODUCTS, websocket)
    /\ broadcast(disconnect(active_connections, websocket),
                 ProductsLeft(websockets[websocket].username))

\* ------------------------------------------------------------------------
\* Background computations of src/main.py (src/main.py:276-355)
\* ------------------------------------------------------------------------
\* @retry(stop=stop_after_attempt(3), wait=wait_fixed(2)) (src/main.py:282, 308)
stop_after_attempt == 3
wait_fixed == 2

DETAIL_NOT_POSITIVE == "Chislo dolzhno byt polozhitelnym"
DETAIL_BAD_RANGE == "Nachalo diapazona dolzhno byt menshe ili ravno koncu"

\* result = 1; for i in range(1, n + 1): result *= i
RECURSIVE factorial(_)
factorial(n) == IF n <= 0 THEN 1 ELSE n * factorial(n - 1)

\* sum(range(start, end + 1))
RECURSIVE sum_range(_, _)
sum_range(start, end) == IF start > end THEN 0 ELSE start + sum_range(start + 1, end)

\* notify_completion (src/main.py:276-278)
notify_completion(task_id, username, result) ==
    broadcast(active_connections,
              <<"Zadacha ", task_id, " dlya ", username, " zavershena, rezultat: ", result>>)

\* background_tasks.add_task(func, *args): the decorated function is called
\* once after the response was sent; tenacity counts its attempts.
add_task(func, args, username) ==
    [state |-> "scheduled", func |-> func, args |-> args, username |-> username,
     attempt_number |-> 0, slept |-> <<>>]

\* What the retry decorator does with an attempt that raised: it raises
\* RetryError after attempt stop_after_attempt, and sleeps otherwise.
retry_after_failure(attempt_number) ==
    IF attempt_number >= stop_after_attempt THEN "raised" ELSE "waiting"

\* The outcomes of an attempt: the function returns; or the INSERT (or
\* taking the connection) raises; or, after the commit, a send_text of
\* notify_completion raises.  The except block logs and re-raises each error.
AttemptOutcomes == {"returned", "database error", "notification error"}

\* notify_completion whose broadcast raises at the send to connection number
\* failed: the connections before it were sent the text.
notify_completion_raises(task_id, username, result, failed) ==
    broadcast(SubSeq(active_connections, 1, failed - 1),
              <<"Zadacha ", task_id, " dlya ", username, " zavershena, rezultat: ", result>>)

\* POST /compute/async (src/main.py:341-355)
start_async_computation(authorization, n) ==
    LET current_user == Depends_main_get_current_user(authorization)
    IN  /\ request' = [op |-> "POST /compute/async", authorization |-> authorization,
                       n |-> n]
        /\ IF "raised" \in DOMAIN current_user
           THEN /\ response' = current_user.raised
                /\ handler_ran' = FALSE
                /\ UNCHANGED other_vars
                /\ UNCHANGED computation
           ELSE /\ handler_ran' = TRUE
                /\ UNCHANGED other_vars
                /\ IF n <= 0
                   THEN /\ response' = HTTPException(400, DETAIL_NOT_POSITIVE, NoHeaders)
                        /\ UNCHANGED computation
                   ELSE /\ computation.state = "none"
                        /\ computation' = add_task("compute_factorial_async", <<n>>,
                                                   current_user.username)
                        /\ response' = JSONResponse(200,
                              [message |-> <<"Asinhronnye vychisleniya faktoriala ", n,
                                             " nachato v fone">>])
        /\ sent' = <<>>
        /\ UNCHANGED <<users, products, next_id, tasks, ws_vars, refresh_tokens,
                       calculations, now>>

\* POST /compute/sum (src/main.py:330-337)
start_sum_computation(authorization, start, end) ==
    LET current_user == Depends_main_get_current_user(authorization)
    IN  /\ request' = [op |-> "POST /compute/sum", authorization |-> authorization,
                       start |-> start, end |-> end]
        /\ IF "raised" \in DOMAIN current_user
           THEN /\ response' = current_user.raised
                /\ handler_ran' = FALSE
                /\ UNCHANGED other_vars
                /\ UNCHANGED computation
           ELSE /\ handler_ran' = TRUE
                /\ UNCHANGED other_vars
                /\ IF start > end
                   THEN /\ response' = HTTPException(400, DETAIL_BAD_RANGE, NoHeaders)
                        /\ UNCHANGED computation
                   ELSE /\ computation.state = "none"
                        /\ computation' = add_task("compute_sum_range", <<start, end>>,
                                                   current_user.username)
                        /\ response' = JSONResponse(200,
                              [message |-> <<"Asinhronnoe vychislenie summy ot ", start,
                                             " do ", end, " nachato v fone">>])
        /\ sent' = <<>>
        /\ UNCHANGED <<users, products, next_id, tasks, ws_vars, refresh_tokens,
                       calculations, now>>

\* One attempt of compute_factorial_async (src/main.py:283-305).
\* compute_factorial_async under a decorator that never stops retrying.
compute_factorial_async_never_stops(outcome) ==
    /\ computation.state = "scheduled"
    /\ computation.func = "compute_factorial_async"
    /\ LET n == computation.args[1]
           username == computation.username
           result == factorial(n)
           attempt_number == computation.attempt_number + 1
       IN  /\ request' = [op |-> "attempt", func |-> computation.func,
                          outcome |-> outcome]
           /\ IF outcome = "returned"
              THEN /\ calculations' = Append(calculations,
                          [username |-> username, task |-> <<"factorial of ", n>>,
                           result |-> result])
                   /\ notify_completion(<<"task_", n, "_", username>>, username, result)
                   /\ computation' = [computation EXCEPT !.state = "returned",
                                         !.attempt_number = attempt_number]
              ELSE /\ computation' = [computation EXCEPT
                                         !.state = "waiting",
                                         !.attempt_number = attempt_number]
                   /\ sent' = <<>>
                   /\ UNCHANGED <<calculations, received>>
    /\ response' = NoResponse
    /\ handler_ran' = FALSE
    /\ UNCHANGED other_vars
    /\ UNCHANGED <<users, products, next_id, tasks, active_connections, websockets,
                   refresh_tokens, now>>

compute_factorial_async(outcome) ==
    /\ computation.state = "scheduled"
    /\ computation.func = "compute_factorial_async"
    /\ LET n == computation.args[1]
           username == computation.username
           result == factorial(n)
           attempt_number == computation.attempt_number + 1
       IN  /\ request' = [op |-> "attempt", func |-> computation.func,
                          outcome |-> outcome]
           /\ IF outcome = "returned"
              THEN /\ calculations' = Append(calculations,
                          [username |-> username, task |-> <<"factorial of ", n>>,
                           result |-> result])
                   /\ notify_completion(<<"task_", n, "_", username>>, username, result)
                   /\ computation' = [computation EXCEPT !.state = "returned",
                                         !.attempt_number = attempt_number]
              ELSE IF outcome = "notification error"
              THEN /\ active_connections # <<>>
                   /\ calculations' = Append(calculations,
                          [username |-> username, task |-> <<"factorial of ", n>>,
                           result |-> result])
                   /\ \E failed \in 1..Len(active_connections) :
                          notify_completion_raises(<<"task_", n, "_", username>>,
                                                   username, result, failed)
                   /\ computation' = [computation EXCEPT
                                         !.state = retry_after_failure(attempt_number),
                                         !.attempt_number = attempt_number]
              ELSE /\ computation' = [computation EXCEPT
                                         !.state = retry_after_failure(attempt_number),
                                         !.attempt_number = attempt_number]
                   /\ sent' = <<>>
                   /\ UNCHANGED <<calculations, received>>
    /\ response' = NoResponse
    /\ handler_ran' = FALSE
    /\ UNCHANGED other_vars
    /\ UNCHANGED <<users, products, next_id, tasks, active_connections, websockets,
                   refresh_tokens, now>>

\* One attempt of compute_sum_range (src/main.py:309-327).
compute_sum_range(outcome) ==
    /\ computation.state = "scheduled"
    /\ computation.func = "compute_sum_range"
    /\ LET start == computation.args[1]
           end == computation.args[2]
           username == computation.username
           result == sum_range(start, end)
           attempt_number == computation.attempt_number + 1
       IN  /\ request' = [op |-> "attempt", func |-> computation.func,
                          outcome |-> outcome]
           /\ IF outcome = "returned"
              THEN /\ calculations' = Append(calculations,
                          [username |-> username,
                           task |-> <<"sum from ", start, " to ", end>>,
                           result |-> result])
                   /\ notify_completion(<<"task_sum_", start, "_", end, "_", username>>,
                                        username, result)
                   /\ computation' = [computation EXCEPT !.state = "returned",
                                         !.attempt_number = attempt_number]
              ELSE IF outcome = "notification error"
              THEN /\ active_connections # <<>>
                   /\ calculations' = Append(calculations,
                          [username |-> username,
                           task |-> <<"sum from ", start, " to ", end>>,
                           result |-> result])
                   /\ \E failed \in 1..Len(active_connections) :
                          notify_completion_raises(<<"task_sum_", start, "_", end, "_", username>>,
                                                   username, result, failed)
                   /\ computation' = [computation EXCEPT
                                         !.state = retry_after_failure(attempt_number),
                                         !.attempt_number = attempt_number]
              ELSE /\ computation' = [computation EXCEPT
                                         !.state = retry_after_failure(attempt_number),
                                         !.attempt_number = attempt_number]
                   /\ sent' = <<>>
                   /\ UNCHANGED <<calculations, received>>
    /\ response' = NoResponse
    /\ handler_ran' = FALSE
    /\ UNCHANGED other_vars
    /\ UNCHANGED <<users, products, next_id, tasks, active_connections, websockets,
                   refresh_tokens, now>>

\* The sleep of the retry decorator between two attempts.
retry_sleep ==
    /\ computation.state = "waiting"
    /\ computation' = [computation EXCEPT !.state = "scheduled",
                                          !.slept = Append(@, wait_fixed)]
    /\ request' = [op |-> "retry sleep"]
    /\ response' = NoResponse
    /\ handler_ran' = FALSE
    /\ UNCHANGED other_vars
    /\ sent' = <<>>
    /\ UNCHANGED <<users, products, next_id, tasks, ws_vars, refresh_tokens,
                   calculations, now>>

\* ------------------------------------------------------------------------
\* GET /auth/me (src/auth.py:155-159): user_info is computed and the
\* function ends without a return statement, so it returns None and the
\* response body is the JSON null.
\* ------------------------------------------------------------------------
JSONNull == [none |-> TRUE]

read_users_me(authorization) ==
    LET current_user == Depends_get_current_user(authorization, users)
    IN  /\ request' = [op |-> "GET /auth/me", authorization |-> authorization]
        /\ IF "raised" \in DOMAIN current_user
           THEN /\ response' = current_user.raised
                /\ handler_ran' = FALSE
                /\ UNCHANGED other_vars
           ELSE LET user_info == [username |-> current_user.user.username]
                    returned == JSONNull
                IN  /\ response' = JSONResponse(200, returned)
                    /\ handler_ran' = TRUE
                    /\ UNCHANGED other_vars
        /\ sent' = <<>>
        /\ UNCHANGED <<users, products, next_id, tasks, ws_vars, main_vars, now>>

\* ------------------------------------------------------------------------
\* GraphQL (src/graphql_app/schema.py, src/graphql_app/auth.py)
\* ------------------------------------------------------------------------
ERROR_NOT_AUTHENTICATED == "Not authenticated: Zagolovok Authorization otsutstvuet"
ERROR_INVALID_TOKEN == "Could not validate credentials (Invalid Token)"
ERROR_DATABASE == "database error"

\* authenticate_user (src/graphql_app/auth.py:11-40).  No resolver of the
\* schema calls it.
authenticate_user(authorization) ==
    IF "scheme" \notin DOMAIN authorization
    THEN [raised |-> ERROR_NOT_AUTHENTICATED]
    ELSE IF authorization.scheme # "bearer"
    THEN [raised |-> ERROR_INVALID_TOKEN]
    ELSE LET decoded == jwt_decode(authorization.param, SECRET_KEY)
         IN  IF "error" \in DOMAIN decoded
             THEN [raised |-> ERROR_INVALID_TOKEN]
             ELSE IF payload_get(decoded.payload, "sub") = None
             THEN [raised |-> ERROR_INVALID_TOKEN]
             ELSE [username |-> payload_get(decoded.payload, "sub")]

ProductType(row) ==
    [id |-> row.id, name |-> row.name, description |-> row.description,
     price |-> row.price]

\* What the GraphQL view answers: 200 with the data of the field, or with
\* null data and the message of the exception a resolver raised.
GraphQLData(field, value) ==
    [status_code |-> 200, headers |-> NoHeaders,
     body |-> [data |-> [field |-> field, value |-> value]]]

GraphQLError(message) ==
    [status_code |-> 200, headers |-> NoHeaders,
     body |-> [data |-> JSONNull, errors |-> <<[message |-> message]>>]]

\* query { products } (src/graphql_app/schema.py:21-46)
graphql_get_products(authorization) ==
    /\ request' = [op |-> "POST /graphql", field |-> "products",
                   authorization |-> authorization]
    /\ response' = GraphQLData("products", {ProductType(row) : row \in products})
    /\ handler_ran' = TRUE
    /\ UNCHANGED other_vars
    /\ sent' = <<>>
    /\ UNCHANGED <<users, products, next_id, tasks, ws_vars, main_vars, now>>

\* query { product(productId) } (src/graphql_app/schema.py:51-71)
graphql_get_product(authorization, product_id) ==
    /\ request' = [op |-> "POST /graphql", field |-> "product",
                   authorization |-> authorization, product_id |-> product_id]
    /\ response' = GraphQLData("product",
                        IF \E row \in products : row.id = product_id
                        THEN ProductType(CHOOSE row \in products : row.id = product_id)
                        ELSE JSONNull)
    /\ handler_ran' = TRUE
    /\ UNCHANGED other_vars
    /\ sent' = <<>>
    /\ UNCHANGED <<users, products, next_id, tasks, ws_vars, main_vars, now>>

\* mutation { addProduct(name, price, description) }
\* (src/graphql_app/schema.py:75-95).  The INSERT names no owner: the row is
\* stored with a NULL owner_username, or, where the column is declared NOT
\* NULL (src/models.py:31), the INSERT raises (inserted = FALSE).
graphql_create_product(authorization, args, inserted) ==
    /\ request' = [op |-> "POST /graphql", field |-> "addProduct",
                   authorization |-> authorization, args |-> args]
    /\ handler_ran' = TRUE
    /\ UNCHANGED other_vars
    /\ IF inserted
       THEN LET row == [id |-> next_id, name |-> args.name,
                        description |-> args.description, price |-> args.price,
                        owner_username |-> None]
            IN  /\ next_id <= MaxProducts
                /\ products' = products \cup {row}
                /\ next_id' = next_id + 1
                /\ response' = GraphQLData("addProduct", ProductType(row))
       ELSE /\ response' = GraphQLError(ERROR_DATABASE)
            /\ UNCHANGED <<products, next_id>>
    /\ sent' = <<>>
    /\ UNCHANGED <<users, tasks, ws_vars, main_vars, now>>

\* ------------------------------------------------------------------------
\* File upload: S3Service (src/s3_service.py), POST /media/upload
\* (src/routers/media.py), PATCH /users/me/avatar (src/routers/users.py)
\* ------------------------------------------------------------------------
\* A string is the sequence of its parts; str.startswith compares a prefix.
startswith(s, prefix) ==
    /\ Len(s) >= Len(prefix)
    /\ SubSeq(s, 1, Len(prefix)) = prefix

IMAGE_PREFIX == <<"image", "/">>
DETAIL_NOT_IMAGE == "File must be an image"
DETAIL_UPLOAD_FAILED == "Failed to upload file"
MESSAGE_AVATAR_UPDATED == "Avatar updated successfully"
S3_BUCKET_NAME == "bucket"

ContentTypes == {<<"image", "/", "png">>, <<"text", "/", "plain">>,
                 <<"image">>, <<"application", "/", "image", "/", "png">>}
Filenames == {<<"cat", ".", "png">>}
UploadFile == [filename : Filenames, content_type : ContentTypes]

\* S3Service.upload_file: the object's name is a fresh uuid4 with the
\* extension of the file name; the link has "minio" replaced by "localhost".
unique_filename(file) ==
    <<Len(bucket) + 1, ".", file.filename[Len(file.filename)]>>

file_url(file) ==
    [host |-> "localhost", bucket |-> S3_BUCKET_NAME, key |-> unique_filename(file)]

upload_fileobj(file) ==
    Append(bucket, [key |-> unique_filename(file), content_type |-> file.content_type])

\* What FastAPI makes of an exception object that the endpoint returns: the
\* object is encoded like any other return value, under the status 200.
returned_exception(exception) ==
    JSONResponse(200, [status_code |-> exception.status_code,
                       detail |-> exception.body.detail,
                       headers |-> JSONNull])

\* An exception that no handler catches is answered by the server.
InternalServerError ==
    [status_code |-> 500, headers |-> NoHeaders,
     body |-> [text |-> "Internal Server Error"]]

\* POST /media/upload (src/routers/media.py:9-22): the HTTPException of the
\* content-type test is returned, not raised.
upload_file(file, stored) ==
    /\ request' = [op |-> "POST /media/upload", file |-> file]
    /\ handler_ran' = TRUE
    /\ Len(bucket) < MaxUploads
    /\ IF ~startswith(file.content_type, IMAGE_PREFIX)
       THEN /\ response' = returned_exception(
                               HTTPException(400, DETAIL_NOT_IMAGE, NoHeaders))
            /\ UNCHANGED bucket
       ELSE IF ~stored
       THEN /\ response' = HTTPException(500, DETAIL_UPLOAD_FAILED, NoHeaders)
            /\ UNCHANGED bucket
       ELSE /\ bucket' = upload_fileobj(file)
            /\ response' = JSONResponse(200, [filename |-> file.filename,
                                              url |-> file_url(file)])
    /\ sent' = <<>>
    /\ UNCHANGED <<users, products, next_id, tasks, ws_vars, main_vars, now,
                   avatar_urls, startup_vars, step_vars>>

\* PATCH /users/me/avatar (src/routers/users.py:8-35).  The file is stored
\* by S3Service or the upload fails (stored); the UPDATE of users is done by
\* the database or raises (updated).
update_avatar(authorization, file, stored, updated) ==
    LET current_user == Depends_get_current_user(authorization, users)
    IN  /\ request' = [op |-> "PATCH /users/me/avatar",
                       authorization |-> authorization, file |-> file]
        /\ Len(bucket) < MaxUploads
        /\ IF "raised" \in DOMAIN current_user
           THEN /\ response' = current_user.raised
                /\ handler_ran' = FALSE
                /\ UNCHANGED media_vars
           ELSE /\ handler_ran' = TRUE
                /\ IF ~startswith(file.content_type, IMAGE_PREFIX)
                   THEN /\ response' = HTTPException(400, DETAIL_NOT_IMAGE, NoHeaders)
                        /\ UNCHANGED media_vars
                   ELSE IF ~stored
                   THEN /\ response' = HTTPException(500, DETAIL_UPLOAD_FAILED, NoHeaders)
                        /\ UNCHANGED media_vars
                   ELSE /\ bucket' = upload_fileobj(file)
                        /\ IF ~updated
                           THEN /\ response' = InternalServerError
                                /\ UNCHANGED avatar_urls
                           ELSE /\ avatar_urls' = [avatar_urls EXCEPT
                                        ![current_user.user.username] = file_url(file)]
                                /\ response' = JSONResponse(200,
                                        [message |-> MESSAGE_AVATAR_UPDATED,
                                         avatar_url |-> file_url(file),
                                         user |-> current_user.user])
        /\ sent' = <<>>
        /\ UNCHANGED <<users, products, next_id, tasks, ws_vars, main_vars, now,
                       startup_vars, step_vars>>

\* ------------------------------------------------------------------------
\* connect_to_db (src/database.py:11-45), called once when the application
\* starts.  Each attempt creates a pool and the tables; asyncpg.create_pool
\* or create_tables may raise.  A pool is named by the attempt that made it.
\* ------------------------------------------------------------------------
MAX_RETRIES == 5
WAIT_SECONDS == 5

ConnectOutcomes == {"returned", "create_pool raised", "create_tables raised"}

connect_to_db ==
    /\ startup = NotStarted
    /\ startup' = [state |-> "attempting", attempt |-> 1, slept |-> <<>>,
                   printed |-> <<>>]
    /\ request' = [op |-> "connect_to_db"]
    /\ response' = NoResponse
    /\ handler_ran' = FALSE
    /\ sent' = <<>>
    /\ UNCHANGED <<users, products, next_id, tasks, ws_vars, main_vars, now,
                   media_vars, app_state_pool, step_vars>>

\* An attempt that sleeps after the last failure too, and goes on.
connect_to_db_attempt_no_limit(outcome) ==
    /\ startup.state = "attempting"
    /\ startup.attempt <= MAX_RETRIES + 1
    /\ request' = [op |-> "connect_to_db attempt", attempt |-> startup.attempt,
                   outcome |-> outcome]
    /\ app_state_pool' = IF outcome = "create_pool raised" THEN app_state_pool
                         ELSE [pool |-> startup.attempt]
    /\ startup' = [startup EXCEPT
            !.state = IF outcome = "returned" THEN "returned" ELSE "sleeping",
            !.printed = Append(@, outcome)]
    /\ response' = NoResponse
    /\ handler_ran' = FALSE
    /\ sent' = <<>>
    /\ UNCHANGED <<users, products, next_id, tasks, ws_vars, main_vars, now,
                   media_vars, step_vars>>

\* One pass of the loop body up to the return, the sleep or the raise.
connect_to_db_attempt(outcome) ==
    /\ startup.state = "attempting"
    /\ request' = [op |-> "connect_to_db attempt", attempt |-> startup.attempt,
                   outcome |-> outcome]
    /\ app_state_pool' = IF outcome = "create_pool raised" THEN app_state_pool
                         ELSE [pool |-> startup.attempt]
    /\ startup' = [startup EXCEPT
            !.state = IF outcome = "returned" THEN "returned"
                      ELSE IF startup.attempt < MAX_RETRIES THEN "sleeping"
                      ELSE "raised",
            !.printed = Append(@, outcome)]
    /\ response' = NoResponse
    /\ handler_ran' = FALSE
    /\ sent' = <<>>
    /\ UNCHANGED <<users, products, next_id, tasks, ws_vars, main_vars, now,
                   media_vars, step_vars>>

\* await asyncio.sleep(WAIT_SECONDS) ends and the loop takes the next attempt.
connect_to_db_sleep ==
    /\ startup.state = "sleeping"
    /\ startup' = [startup EXCEPT !.state = "attempting",
                                  !.attempt = @ + 1,
                                  !.slept = Append(@, WAIT_SECONDS)]
    /\ request' = [op |-> "connect_to_db sleep"]
    /\ response' = NoResponse
    /\ handler_ran' = FALSE
    /\ sent' = <<>>
    /\ UNCHANGED <<users, products, next_id, tasks, ws_vars, main_vars, now,
                   media_vars, app_state_pool, step_vars>>

\* ------------------------------------------------------------------------
\* POST /auth/register step by step (src/auth.py:125-137).  The handler
\* awaits the SELECT of get_user_from_db and the INSERT, and another request
\* may run at either await.  users.username is the primary key
\* (src/database.py:52-55): an INSERT of a username that a row has already
\* raises UniqueViolationError, which nothing catches.
\* ------------------------------------------------------------------------
register_select(client, user_in) ==
    /\ registering[client] = NoRequest
    /\ request' = [op |-> "POST /auth/register", step |-> "SELECT",
                   client |-> client, user_in |-> user_in]
    /\ handler_ran' = TRUE
    /\ IF get_user_from_db(users, user_in.username) # NoUser
       THEN /\ response' = HTTPException(400, DETAIL_USER_EXISTS, NoHeaders)
            /\ registering' = [registering EXCEPT ![client] =
                    [pc |-> "answered", user_in |-> user_in, response |-> response']]
       ELSE /\ response' = NoResponse
            /\ registering' = [registering EXCEPT ![client] =
                    [pc |-> "INSERT", user_in |-> user_in, response |-> NoResponse]]
    /\ sent' = <<>>
    /\ UNCHANGED <<users, products, next_id, tasks, ws_vars, main_vars, now,
                   media_vars, startup_vars, broadcasting>>

register_insert(client) ==
    LET user_in == registering[client].user_in
        hashed_password == get_password_hash(user_in.password)
    IN  /\ registering[client].pc = "INSERT"
        /\ request' = [op |-> "POST /auth/register", step |-> "INSERT",
                       client |-> client, user_in |-> user_in]
        /\ handler_ran' = TRUE
        /\ IF \E row \in users : row.username = user_in.username
           THEN /\ response' = InternalServerError
                /\ UNCHANGED users
           ELSE /\ users' = users \cup {[username |-> user_in.username,
                                         hashed_password |-> hashed_password]}
                /\ response' = JSONResponse(200, create_tokens([sub |-> user_in.username]))
        /\ registering' = [registering EXCEPT ![client].pc = "answered",
                                              ![client].response = response']
        /\ sent' = <<>>
        /\ UNCHANGED <<products, next_id, tasks, ws_vars, main_vars, now,
                       media_vars, startup_vars, broadcasting>>

\* ------------------------------------------------------------------------
\* The WebSocket handlers await by await (src/websocket.py).  A handler runs
\* until its next await: manager.broadcast (lines 39-43) yields at each
\* send_text, and connects, disconnects and other broadcasts run meanwhile on
\* the one list active_connections.  The loop of broadcast reads the list by
\* position: next is the position of the element it takes when it resumes.
\* A client may be gone before its handler has seen the disconnect
\* (state "client gone"); a send_text to such a socket, or to a socket
\* whose handler has ended, is dropped or raises.  The send_text calls of a
\* step are recorded in sent; what the clients do with the texts is not
\* followed.
\* ------------------------------------------------------------------------
SendFailures == {"dropped", "WebSocketDisconnect", "RuntimeError"}

\* A call of manager.broadcast(message) before its first iteration.  present
\* is the set of connections that are in the list since the call; sent_to
\* lists the connections the call has sent to.
NewBroadcast(kind, message, self) ==
    [pc |-> kind, message |-> message, next |-> 1, present |-> Range(self),
     sent_to |-> <<>>]

\* The state a handler works on within one step.
World ==
    [list |-> active_connections, ws |-> websockets, bcs |-> broadcasting,
     sent |-> <<>>]

Apply(w) ==
    /\ active_connections' = w.list
    /\ websockets' = w.ws
    /\ broadcasting' = w.bcs
    /\ sent' = w.sent
    /\ UNCHANGED received

\* manager.disconnect(websocket)
Remove(w, websocket) ==
    [w EXCEPT !.list = disconnect(w.list, websocket),
              !.bcs = [b \in Broadcasters |->
                          IF w.bcs[b] = NoBroadcast THEN NoBroadcast
                          ELSE [w.bcs[b] EXCEPT !.present = @ \ {websocket}]]]

\* await connection.send_text(message) of the iteration at hand.
send_text(w, b, outcome) ==
    LET target == w.list[w.bcs[b].next]
    IN  [target |-> target,
         result |-> IF w.ws[target].state = "accepted" THEN "delivered" ELSE outcome]

Advance(w, b) == [w EXCEPT !.bcs[b].next = @ + 1]

Delivered(w, b, target) ==
    [Advance(w, b) EXCEPT !.sent = Append(@, <<target, w.bcs[b].message>>),
                          !.bcs[b].sent_to = Append(@, target)]

\* The handler ends by an exception that it does not catch.
EndHandler(w, websocket, state) ==
    [w EXCEPT !.ws[websocket].state = state, !.bcs[websocket] = NoBroadcast]

\* One iteration of the broadcast of a leave text, inside the except clause:
\* an exception of send_text leaves the handler.
iterate_leave(w, b, outcome) ==
    IF w.bcs[b].next > Len(w.list)
    THEN [w EXCEPT !.bcs[b] = NoBroadcast]
    ELSE LET s == send_text(w, b, outcome)
         IN  IF s.result = "delivered" THEN Delivered(w, b, s.target)
             ELSE IF s.result = "dropped" THEN Advance(w, b)
             ELSE [w EXCEPT !.bcs[b] = NoBroadcast]

left_text(path, username) ==
    IF path = PATH_NOTIFICATIONS THEN NotificationLeft(username)
    ELSE ProductsLeft(username)

\* except WebSocketDisconnect (lines 90-92, 128-130, 180-184): the socket is
\* removed; /ws/chat then awaits None and ends with TypeError, the other
\* endpoints broadcast the leave text.
except_WebSocketDisconnect(w, websocket, leave_outcome) ==
    LET removed == Remove(w, websocket)
        gone == [removed EXCEPT !.ws[websocket].state = "disconnected",
                                !.bcs[websocket] = NoBroadcast]
        text == left_text(w.ws[websocket].path, w.ws[websocket].username)
    IN  IF w.ws[websocket].path = PATH_CHAT THEN gone
        ELSE iterate_leave(
                 [gone EXCEPT !.bcs[websocket] = NewBroadcast("leave", text, gone.list)],
                 websocket, leave_outcome)

\* The broadcaster b resumes: the loop takes the element at position next,
\* or ends, and the handler goes on to its next await.
iterate(w, b, outcome, leave_outcome) ==
    LET bc == w.bcs[b]
    IN  IF bc.pc = "leave" THEN iterate_leave(w, b, outcome)
        ELSE IF bc.next > Len(w.list) THEN [w EXCEPT !.bcs[b] = NoBroadcast]
        ELSE LET s == send_text(w, b, outcome)
             IN  IF s.result = "delivered" THEN Delivered(w, b, s.target)
                 ELSE IF s.result = "dropped" THEN Advance(w, b)
                 ELSE IF b = "task" THEN [w EXCEPT !.bcs[b] = NoBroadcast]
                 ELSE IF bc.pc = "text" /\ s.result = "WebSocketDisconnect"
                 THEN except_WebSocketDisconnect(w, b, leave_outcome)
                 ELSE EndHandler(w, b, "failed")

joined_text(path, username) ==
    IF path = PATH_NOTIFICATIONS THEN NotificationJoined[username]
    ELSE IF path = PATH_CHAT THEN ChatJoined[username]
    ELSE ProductsJoined[username]

\* A handler from the request to its first await inside broadcast
\* (lines 51-82, 95-122, 138-171).
handler_connect(path, websocket, token, outcome) ==
    LET checked == websocket_authenticate(token, users)
    IN  /\ websockets[websocket].state = "connecting"
        /\ request' = [op |-> "WS connect", path |-> path,
                       websocket |-> websocket, token |-> token]
        /\ response' = NoResponse
        /\ handler_ran' = TRUE
        /\ IF "close" \in DOMAIN checked
           THEN Apply([World EXCEPT !.ws[websocket] =
                           [state |-> "closed", path |-> path, username |-> None,
                            code |-> checked.close]])
           ELSE LET list == connect(active_connections, websocket)
                    text == joined_text(path, checked.username)
                    accepted ==
                        [World EXCEPT
                            !.ws[websocket] = [state |-> "accepted", path |-> path,
                                               username |-> checked.username, code |-> 0],
                            !.list = list,
                            !.bcs[websocket] = NewBroadcast("join", text, list)]
                IN  Apply(iterate(accepted, websocket, outcome, outcome))
        /\ UNCHANGED <<users, products, next_id, tasks, main_vars, now,
                       media_vars, startup_vars, registering>>

\* The client of an accepted socket goes away; its handler learns of it at
\* its next receive_text.
client_leaves(websocket) ==
    /\ websockets[websocket].state = "accepted"
    /\ websockets' = [websockets EXCEPT ![websocket].state = "client gone"]
    /\ request' = [op |-> "client leaves", websocket |-> websocket]
    /\ response' = NoResponse
    /\ handler_ran' = FALSE
    /\ sent' = <<>>
    /\ UNCHANGED <<users, products, next_id, tasks, active_connections, received,
                   main_vars, now, media_vars, startup_vars, step_vars>>

\* receive_text returns a text (lines 89, 126-127, 176-179).
handler_receive_text(websocket, data, outcome, leave_outcome) ==
    LET path == websockets[websocket].path
        text == ChatLine(websockets[websocket].username, data)
        called == [World EXCEPT !.bcs[websocket] =
                       NewBroadcast("text", text, active_connections)]
    IN  /\ websockets[websocket].state = "accepted"
        /\ broadcasting[websocket] = NoBroadcast
        /\ request' = [op |-> "WS receive_text", path |-> path,
                       websocket |-> websocket, data |-> data]
        /\ response' = NoResponse
        /\ handler_ran' = TRUE
        /\ IF path = PATH_NOTIFICATIONS
           THEN Apply(World)
           ELSE Apply(iterate(called, websocket, outcome, leave_outcome))
        /\ UNCHANGED <<users, products, next_id, tasks, main_vars, now,
                       media_vars, startup_vars, registering>>

\* receive_text raises WebSocketDisconnect.
handler_disconnect(websocket, leave_outcome) ==
    /\ websockets[websocket].state = "client gone"
    /\ broadcasting[websocket] = NoBroadcast
    /\ request' = [op |-> "WS disconnect", path |-> websockets[websocket].path,
                   websocket |-> websocket]
    /\ response' = NoResponse
    /\ handler_ran' = TRUE
    /\ Apply(except_WebSocketDisconnect(World, websocket, leave_outcome))
    /\ UNCHANGED <<users, products, next_id, tasks, main_vars, now,
                   media_vars, startup_vars, registering>>

\* The background task of create_product (src/routers/products.py:66-68)
\* starts: manager.broadcast(message) up to its first await.
background_task_begin(outcome) ==
    LET called == [World EXCEPT !.bcs["task"] =
                       NewBroadcast("task", Head(tasks), active_connections)]
    IN  /\ tasks # <<>>
        /\ broadcasting["task"] = NoBroadcast
        /\ tasks' = Tail(tasks)
        /\ request' = [op |-> "background task"]
        /\ response' = NoResponse
        /\ handler_ran' = FALSE
        /\ Apply(iterate(called, "task", outcome, outcome))
        /\ UNCHANGED <<users, products, next_id, main_vars, now,
                       media_vars, startup_vars, registering>>

\* A broadcast resumes after the await of its last send_text.
broadcast_resume(b, outcome, leave_outcome) ==
    /\ broadcasting[b] # NoBroadcast
    /\ request' = [op |-> "broadcast resume", broadcaster |-> b]
    /\ response' = NoResponse
    /\ handler_ran' = FALSE
    /\ Apply(iterate(World, b, outcome, leave_outcome))
    /\ UNCHANGED <<users, products, next_id, tasks, main_vars, now,
                   media_vars, startup_vars, registering>>

\* Time passes.
Tick ==
    /\ now < MaxNow
    /\ now' = now + TickMinutes
    /\ request' = [op |-> "tick"]
    /\ response' = NoResponse
    /\ handler_ran' = FALSE
    /\ UNCHANGED other_vars
    /\ sent' = <<>>
    /\ UNCHANGED <<users, products, next_id, tasks, ws_vars, main_vars>>

\* The /auth router, with time passing.
NextAuth ==
    \/ \E user_in \in UserCreate : register(user_in)
    \/ \E form_data \in OAuth2PasswordRequestForm : login_for_token(form_data)
    \/ \E authorization \in Authorizations : protected_route(authorization)
    \/ \E authorization \in Authorizations : read_users_me(authorization)
    \/ Tick

\* The /products router, its callers registering through /auth/register.
NextProducts ==
    \/ \E user_in \in ProductUsers : register(user_in)
    \/ \E authorization \in ProductCallers : get_products(authorization)
    \/ \E authorization \in ProductCallers, body \in ProductBodies :
            create_product(authorization, body)
    \/ \E authorization \in ProductCallers, product_id \in ProductIds :
            delete_product(authorization, product_id)
    \/ run_background_task

\* The WebSocket endpoints, their users registering through /auth/register.
NextWS ==
    \/ \E user_in \in WSUsers : register(user_in)
    \/ \E websocket \in Sockets, token \in Tokens :
            websocket_notification(websocket, token)
    \/ \E websocket \in Sockets, data \in ClientTexts :
            websocket_notification_receive_text(websocket, data)
    \/ \E websocket \in Sockets : websocket_notification_disconnect(websocket)
    \/ \E websocket \in Sockets, token \in Tokens : websocket_chat(websocket, token)
    \/ \E websocket \in Sockets, data \in ClientTexts :
            websocket_chat_receive_text(websocket, data)
    \/ \E websocket \in Sockets : websocket_chat_disconnect(websocket)
    \/ \E websocket \in Sockets, token \in Tokens :
            websocket_products(websocket, token)
    \/ \E websocket \in Sockets, data \in ClientTexts :
            websocket_products_receive_text(websocket, data)
    \/ \E websocket \in Sockets : websocket_products_disconnect(websocket)
    \/ Tick

\* The GraphQL schema.
NextGraphQL ==
    \/ \E authorization \in ProductCallers : graphql_get_products(authorization)
    \/ \E authorization \in ProductCallers, product_id \in ProductIds :
            graphql_get_product(authorization, product_id)
    \/ \E authorization \in ProductCallers, args \in AddProductArgs,
          inserted \in BOOLEAN : graphql_create_product(authorization, args, inserted)

\* src/main.py: registration, token refresh and the products of the caller.
NextMain ==
    \/ \E user \in WSUsers, saved \in BOOLEAN : main_register(user, saved)
    \/ \E token \in Tokens, saved \in BOOLEAN : refresh_token(token, saved)
    \/ \E authorization \in ProductCallers : main_get_products(authorization)
    \/ Tick

\* src/main.py: registration and the WebSocket endpoint.
NextMainWS ==
    \/ \E user \in WSUsers, saved \in BOOLEAN : main_register(user, saved)
    \/ \E websocket \in Sockets, token \in Tokens : websocket_endpoint(websocket, token)
    \/ \E websocket \in Sockets, data \in ClientTexts :
            websocket_endpoint_receive_text(websocket, data)
    \/ \E websocket \in Sockets : websocket_endpoint_disconnect(websocket)
    \/ Tick

\* src/main.py: one background computation, from its request to its end.
NextCompute ==
    \/ \E authorization \in ProductCallers, n \in ComputeNumbers :
            start_async_computation(authorization, n)
    \/ \E authorization \in ProductCallers, start \in ComputeNumbers,
          end \in ComputeNumbers : start_sum_computation(authorization, start, end)
    \/ \E outcome \in AttemptOutcomes : compute_factorial_async(outcome)
    \/ \E outcome \in AttemptOutcomes : compute_sum_range(outcome)
    \/ retry_sleep

\* The event loop runs a scheduled task and ends a sleep.
RetryStep ==
    \/ \E outcome \in AttemptOutcomes : compute_factorial_async(outcome)
    \/ \E outcome \in AttemptOutcomes : compute_sum_range(outcome)
    \/ retry_sleep

\* The WebSocket endpoints with two users, each connecting with the access
\* token /auth/register gave them, and texts that name a user.
ChatUsers == ProductUsers
ChatTokens == {AccessTokenOf(username) : username \in Usernames}
ChatTexts == ClientTexts \cup Usernames

NextChat ==
    \/ \E user_in \in ChatUsers : register(user_in)
    \/ \E websocket \in Sockets, token \in ChatTokens :
            websocket_notification(websocket, token)
    \/ \E websocket \in Sockets, data \in ChatTexts :
            websocket_notification_receive_text(websocket, data)
    \/ \E websocket \in Sockets : websocket_notification_disconnect(websocket)
    \/ \E websocket \in Sockets, token \in ChatTokens : websocket_chat(websocket, token)
    \/ \E websocket \in Sockets, data \in ChatTexts :
            websocket_chat_receive_text(websocket, data)
    \/ \E websocket \in Sockets : websocket_chat_disconnect(websocket)
    \/ \E websocket \in Sockets, token \in ChatTokens :
            websocket_products(websocket, token)
    \/ \E websocket \in Sockets, data \in ChatTexts :
            websocket_products_receive_text(websocket, data)
    \/ \E websocket \in Sockets : websocket_products_disconnect(websocket)

\* The upload endpoints, their users registering through /auth/register.
NextMedia ==
    \/ \E user_in \in WSUsers : register(user_in)
    \/ \E file \in UploadFile, stored \in BOOLEAN : upload_file(file, stored)
    \/ \E authorization \in ProductCallers, file \in UploadFile,
          stored \in BOOLEAN, updated \in BOOLEAN :
            update_avatar(authorization, file, stored, updated)

\* The start of the application: connect_to_db from its call to its end.
NextStartup ==
    \/ connect_to_db
    \/ \E outcome \in ConnectOutcomes : connect_to_db_attempt(outcome)
    \/ connect_to_db_sleep

\* Concurrent registrations: each client sends one request.
NextRegister ==
    \/ \E client \in Clients, user_in \in UserCreate : register_select(client, user_in)
    \/ \E client \in Clients : register_insert(client)
    \/ Tick

\* The WebSocket handlers and the broadcast of a new product, await by await.
BroadcastCallers == {Bearer(AccessTokenOf("alice"))}
BroadcastBodies == {[name |-> "pc", price |-> 10]}
BroadcastPaths == {PATH_NOTIFICATIONS, PATH_CHAT, PATH_PRODUCTS}

\* POST /products while fewer than MaxBroadcastProducts products exist.
create_broadcast_product(authorization, body) ==
    /\ next_id <= MaxBroadcastProducts
    /\ create_product(authorization, body)

NextBroadcast ==
    \/ \E user_in \in WSUsers : register(user_in)
    \/ \E authorization \in BroadcastCallers, body \in BroadcastBodies :
            create_broadcast_product(authorization, body)
    \/ \E path \in BroadcastPaths, websocket \in Sockets, token \in ChatTokens,
          outcome \in SendFailures : handler_connect(path, websocket, token, outcome)
    \/ \E websocket \in Sockets : client_leaves(websocket)
    \/ \E websocket \in Sockets, data \in ClientTexts, outcome \in SendFailures,
          leave_outcome \in SendFailures :
            handler_receive_text(websocket, data, outcome, leave_outcome)
    \/ \E websocket \in Sockets, leave_outcome \in SendFailures :
            handler_disconnect(websocket, leave_outcome)
    \/ \E outcome \in SendFailures : background_task_begin(outcome)
    \/ \E b \in Broadcasters, outcome \in SendFailures, leave_outcome \in SendFailures :
            broadcast_resume(b, outcome, leave_outcome)

\* src/main.py: a background computation while clients are connected to
\* /ws/products.
NotifyNumbers == {1, MaxNumber}

NextComputeWS ==
    \/ \E authorization \in BroadcastCallers, n \in NotifyNumbers :
            start_async_computation(authorization, n)
    \/ \E authorization \in BroadcastCallers, start \in NotifyNumbers,
          end \in NotifyNumbers : start_sum_computation(authorization, start, end)
    \/ \E outcome \in AttemptOutcomes : compute_factorial_async(outcome)
    \/ \E outcome \in AttemptOutcomes : compute_sum_range(outcome)
    \/ retry_sleep
    \/ \E websocket \in Sockets, token \in ChatTokens : websocket_endpoint(websocket, token)
    \/ \E websocket \in Sockets : websocket_endpoint_disconnect(websocket)

\* The read operations on products, REST and GraphQL, with the products
\* that registered users create through POST /products.
NextReads ==
    \/ \E user_in \in ProductUsers : register(user_in)
    \/ \E authorization \in ProductCallers, body \in ProductBodies :
            create_product(authorization, body)
    \/ \E authorization \in ProductCallers : get_products(authorization)
    \/ \E authorization \in ProductCallers : graphql_get_products(authorization)
    \/ \E authorization \in ProductCallers, product_id \in ProductIds :
            graphql_get_product(authorization, product_id)
    \/ run_background_task

Next == NextAuth \/ NextProducts \/ NextWS \/ NextMain \/ NextMainWS \/ NextCompute \/ NextGraphQL
           \/ NextMedia \/ NextChat \/ NextStartup \/ NextRegister \/ NextBroadcast \/ NextComputeWS \/ NextReads

SpecAuth == Init /\ [][NextAuth]_vars
SpecProducts == Init /\ [][NextProducts]_vars
SpecWS == Init /\ [][NextWS]_vars
SpecGraphQL == Init /\ [][NextGraphQL]_vars
SpecMain == Init /\ [][NextMain]_vars
SpecMainWS == Init /\ [][NextMainWS]_vars
FairSpecCompute == Init /\ [][NextCompute]_vars /\ WF_vars(RetryStep)
SpecChat == Init /\ [][NextChat]_vars
FairSpecStartup == Init /\ [][NextStartup]_vars /\ WF_vars(NextStartup)
SpecRegister == Init /\ [][NextRegister]_vars
SpecBroadcast == Init /\ [][NextBroadcast]_vars
SpecComputeWS == Init /\ [][NextComputeWS]_vars
SpecReads == Init /\ [][NextReads]_vars
SpecMedia == Init /\ [][NextMedia]_vars
Spec == Init /\ [][Next]_vars

\* ------------------------------------------------------------------------
\* Vocabulary of the properties
\* ------------------------------------------------------------------------
OP_REGISTER == "POST /auth/register"
OP_LOGIN == "POST /auth/login"
OP_PROTECTED == "GET /auth/protected"
OP_GET_PRODUCTS == "GET /products"
OP_CREATE_PRODUCT == "POST /products"
OP_DELETE_PRODUCT == "DELETE /products/{product_id}"

HasUser(table, username) == \E row \in table : row.username = username

IssuesTokens(resp) == "access_token" \in DOMAIN resp.body

IsTokenPair(resp) ==
    /\ resp.status_code = 200
    /\ DOMAIN resp.body = {"access_token", "refresh_token", "token_type"}
    /\ resp.body.token_type = "bearer"

\* ------------------------------------------------------------------------
\* C1: POST /auth/register with a username that is already in users is
\* answered 400 with the detail "Polzovatel s takim imenem uzhe
\* sushchestvuet", issues no tokens and leaves the users table as it was
\* (the stored hash is not overwritten), at every repetition.
\* ------------------------------------------------------------------------
C1_RegisterExistingRejected ==
    [][ (request'.op = OP_REGISTER /\ HasUser(users, request'.user_in.username))
        => /\ response'.status_code = 400
           /\ response'.body = [detail |-> DETAIL_USER_EXISTS]
           /\ ~IssuesTokens(response')
           /\ users' = users ]_vars

\* A registration of an existing user under another password was refused.
C1_Witness ==
    /\ request.op = OP_REGISTER
    /\ response.status_code = 400
    /\ \E row \in users :
          /\ row.username = request.user_in.username
          /\ ~verify_password(request.user_in.password, row.hashed_password)

\* ------------------------------------------------------------------------
\* C2: POST /auth/register for a username not yet in users adds that user
\* and returns 200 with access_token, refresh_token and token_type
\* "bearer"; in every state reachable afterwards a POST /auth/login with
\* the same username and password is answered 200 with an access_token and
\* token_type "bearer".
\* ------------------------------------------------------------------------
C2_RegisterNew ==
    [][ (request'.op = OP_REGISTER /\ ~HasUser(users, request'.user_in.username))
        => /\ IsTokenPair(response')
           /\ HasUser(users', request'.user_in.username)
           /\ Cardinality(users') = Cardinality(users) + 1
           /\ users \subseteq users' ]_vars

C2_LoginAfterRegister ==
    \A user_in \in UserCreate :
        []( (request.op = OP_REGISTER /\ request.user_in = user_in
                /\ response.status_code = 200)
            => []( (request.op = OP_LOGIN /\ request.form_data = user_in)
                   => /\ response.status_code = 200
                      /\ IssuesTokens(response)
                      /\ response.body.token_type = "bearer" ) )

C2_RegisterThenLogin == C2_RegisterNew /\ C2_LoginAfterRegister

\* A login was answered 200 at a later time than the registration, with
\* another user registered as well.
C2_Witness ==
    /\ request.op = OP_LOGIN
    /\ response.status_code = 200
    /\ now > 0
    /\ Cardinality(users) = 2

\* ------------------------------------------------------------------------
\* C3: POST /auth/login returns a token pair only if the username is in
\* users and the submitted password verifies against the stored hash; for
\* an unknown username or a wrong password it answers 401 with a detail
\* field and no access_token, and changes no state.
\* ------------------------------------------------------------------------
CredentialsMatch(table, form_data) ==
    \E row \in table :
        /\ row.username = form_data.username
        /\ verify_password(form_data.password, row.hashed_password)

C3_LoginOnlyWithValidCredentials ==
    [][ request'.op = OP_LOGIN
        => /\ IssuesTokens(response') => CredentialsMatch(users, request'.form_data)
           /\ ~CredentialsMatch(users, request'.form_data)
                => /\ response'.status_code = 401
                   /\ "detail" \in DOMAIN response'.body
                   /\ ~IssuesTokens(response')
                   /\ UNCHANGED <<users, products, next_id, tasks,
                                  ws_vars, main_vars, now>> ]_vars

\* A login under a username that is not registered was refused, while
\* another user is registered.
C3_Witness ==
    /\ request.op = OP_LOGIN
    /\ response.status_code = 401
    /\ ~HasUser(users, request.form_data.username)
    /\ users # {}

\* ------------------------------------------------------------------------
\* C4: a failed login does not reveal whether the username is registered:
\* any two failed logins in a row, one for an unknown username and one for
\* a registered username with a wrong password, get the same response
\* (status 401, detail text, WWW-Authenticate header).
\* ------------------------------------------------------------------------
C4_FailedLoginsIdentical ==
    [][ ( /\ request.op = OP_LOGIN /\ ~IssuesTokens(response)
          /\ request'.op = OP_LOGIN /\ ~IssuesTokens(response') )
        => /\ response' = response
           /\ response'.status_code = 401
           /\ <<"WWW-Authenticate", "Bearer">> \in response'.headers ]_vars

\* A login of a registered user under a wrong password was refused.
C4_Witness ==
    /\ request.op = OP_LOGIN
    /\ ~IssuesTokens(response)
    /\ HasUser(users, request.form_data.username)
    /\ ~CredentialsMatch(users, request.form_data)

\* ------------------------------------------------------------------------
\* C5: get_current_user lets a request through only when the bearer token
\* is signed under SECRET_KEY, is not expired, has type "access", carries a
\* sub claim, and sub names a user that is in users; in every other case
\* the answer is 401 "Could not validate credentials" and the protected
\* handler is not run.
\* ------------------------------------------------------------------------
IsBearer(authorization) ==
    "scheme" \in DOMAIN authorization /\ authorization.scheme = "bearer"

SignedUnexpiredAccessToken(token) ==
    /\ "claims" \in DOMAIN token
    /\ token.key = SECRET_KEY
    /\ "exp" \in DOMAIN token.claims => token.claims.exp >= now
    /\ "type" \in DOMAIN token.claims
    /\ token.claims.type = "access"
    /\ "sub" \in DOMAIN token.claims

TokenOfExistingUser(token) ==
    /\ SignedUnexpiredAccessToken(token)
    /\ HasUser(users, token.claims.sub)

C6_AnySignedAccessTokenGreeted ==
    ( /\ request.op = OP_PROTECTED
      /\ IsBearer(request.authorization)
      /\ SignedUnexpiredAccessToken(request.authorization.param) )
    => /\ response.status_code = 200
       /\ response.body = [message |-> <<"Privet, ",
                                          request.authorization.param.claims.sub,
                                          "! Eto zashchishchennaya zona">>]

\* ------------------------------------------------------------------------
\* C7: a request to GET /auth/protected or POST /products without an
\* Authorization header is answered 403 with the detail "Not
\* authenticated"; the handler does not run and no product is created.
\* ------------------------------------------------------------------------
C7_NoHeaderIs403 ==
    [][ ( /\ request'.op \in {OP_PROTECTED, OP_CREATE_PRODUCT}
          /\ request'.authorization = NoAuthorization )
        => /\ response'.status_code = 403
           /\ response'.body = [detail |-> "Not authenticated"]
           /\ ~handler_ran'
           /\ products' = products ]_vars

\* ------------------------------------------------------------------------
\* C8: after any sequence of product creations and deletions by any users,
\* GET /products for authenticated user u returns exactly the stored
\* products whose owner_username is u (the empty list when u owns none); a
\* product of another owner never appears in it.
\* ------------------------------------------------------------------------
Caller(req) == req.authorization.param.claims.sub

Authenticated(req) ==
    /\ IsBearer(req.authorization)
    /\ TokenOfExistingUser(req.authorization.param)

C8_GetProductsReturnsOwn ==
    (request.op = OP_GET_PRODUCTS /\ Authenticated(request))
    => /\ response.status_code = 200
       /\ response.body =
            {[id |-> p.id, name |-> p.name, price |-> p.price,
              owner_username |-> p.owner_username] :
                p \in {q \in products : q.owner_username = Caller(request)}}
       /\ \A listed \in response.body : listed.owner_username = Caller(request)

\* A caller was listed a product of their own while the table also holds a
\* product of another owner, after a deletion.
C8_Witness ==
    /\ request.op = OP_GET_PRODUCTS
    /\ Authenticated(request)
    /\ response.body # {}
    /\ \E p \in products : p.owner_username # Caller(request)
    /\ Cardinality(products) < next_id - 1

OwnedByCaller(table, req) ==
    /\ Authenticated(req)
    /\ \E p \in table : p.id = req.product_id /\ p.owner_username = Caller(req)

C10_DeleteOnlyOwn ==
    [][ request'.op = OP_DELETE_PRODUCT
        => /\ ~OwnedByCaller(products, request')
                => products' = products /\ tasks' = tasks
           /\ ( /\ Authenticated(request')
                /\ ~\E p \in products : p.id = request'.product_id )
                => response'.status_code = 404
           /\ ( /\ Authenticated(request')
                /\ \E p \in products : /\ p.id = request'.product_id
                                        /\ p.owner_username # Caller(request') )
                => response'.status_code = 403 ]_vars

\* The deletion of another user's product was refused.
C10_Witness ==
    /\ request.op = OP_DELETE_PRODUCT
    /\ response.status_code = 403
    /\ \E p \in products : /\ p.id = request.product_id
                            /\ p.owner_username # Caller(request)

\* ------------------------------------------------------------------------
\* C11: DELETE /products/{id} by the authenticated owner of product id
\* answers 204 and removes exactly that product: every other product is
\* unchanged, and the deleted id is in no later GET /products listing.
\* ------------------------------------------------------------------------
C11_DeleteRemovesExactlyThat ==
    [][ (request'.op = OP_DELETE_PRODUCT /\ OwnedByCaller(products, request'))
        => /\ response'.status_code = 204
           /\ \E row \in products :
                 /\ row.id = request'.product_id
                 /\ products' = products \ {row}
           /\ \A p \in products : p.id # request'.product_id => p \in products'
           /\ \A p \in products' : p.id # request'.product_id ]_vars

\* An id that was given out and is no longer stored is never stored again,
\* and a listing names stored products only.
C11_DeletedNeverListed ==
    [][ /\ \A product_id \in ProductIds :
              ( /\ product_id < next_id
                /\ \A p \in products : p.id # product_id )
              => \A p \in products' : p.id # product_id
        /\ (request'.op = OP_GET_PRODUCTS /\ response'.status_code = 200)
              => \A listed \in response'.body :
                    \E p \in products' : p.id = listed.id ]_vars

C11_DeleteOwnProduct == C11_DeleteRemovesExactlyThat /\ C11_DeletedNeverListed

\* The owner deleted one of their two products while another user's product
\* was stored too.
C11_Witness ==
    /\ request.op = OP_DELETE_PRODUCT
    /\ response.status_code = 204
    /\ \E p \in products : p.owner_username = Caller(request)
    /\ \E p \in products : p.owner_username # Caller(request)

\* ------------------------------------------------------------------------
\* C12: a WebSocket connection to /ws/notifications, /ws/chat or
\* /ws/products whose token fails JWT validation, or whose type claim is
\* not 'access', is closed with code 1008: it is never accepted, never
\* added to active_connections, and no text is broadcast for it.
\* ------------------------------------------------------------------------
OP_WS_CONNECT == "WS connect"
OP_WS_RECEIVE_TEXT == "WS receive_text"
OP_WS_DISCONNECT == "WS disconnect"

FailsJWTValidation(token) ==
    \/ "claims" \notin DOMAIN token
    \/ token.key # SECRET_KEY
    \/ ("exp" \in DOMAIN token.claims /\ token.claims.exp < now)

NotAnAccessToken(token) ==
    \/ "type" \notin DOMAIN token.claims
    \/ token.claims.type # "access"

C12_InvalidTokenClosed1008 ==
    [][ /\ ( /\ request'.op = OP_WS_CONNECT
             /\ (FailsJWTValidation(request'.token) \/ NotAnAccessToken(request'.token)) )
           => /\ websockets'[request'.websocket].state = "closed"
              /\ websockets'[request'.websocket].code = 1008
              /\ request'.websocket \notin Range(active_connections')
              /\ active_connections' = active_connections
              /\ sent' = <<>>
              /\ received' = received
        /\ \A websocket \in Sockets :
              websockets[websocket].state = "closed"
              => /\ websockets'[websocket] = websockets[websocket]
                 /\ websocket \notin Range(active_connections') ]_vars

\* A connection with a signed, unexpired refresh token of the registered
\* user was closed while another client was connected.
C12_Witness ==
    /\ request.op = OP_WS_CONNECT
    /\ ~FailsJWTValidation(request.token)
    /\ NotAnAccessToken(request.token)
    /\ "sub" \in DOMAIN request.token.claims
    /\ HasUser(users, request.token.claims.sub)
    /\ websockets[request.websocket].state = "closed"
    /\ Len(active_connections) = 1

\* ------------------------------------------------------------------------
\* C14: on a valid connection the socket is accepted and appended to
\* active_connections before the join text is broadcast: the text reaches
\* every active connection, the new client included, and it is the first
\* text the new client receives.
\* ------------------------------------------------------------------------
JoinText(path, username) ==
    IF path = "/ws/notifications"
    THEN <<"Klient ", username, " podklyuchilsya k uvedomleniyam">>
    ELSE IF path = "/ws/chat"
    THEN <<"Klient ", username, " podklyuchilsya k chatu">>
    ELSE <<"Klient '", username, "' prisoedinilsya k chatu.">>

Broadcasts(req) ==
    \/ req.op = OP_WS_CONNECT /\ TokenOfExistingUser(req.token)
    \/ req.op = OP_WS_RECEIVE_TEXT /\ req.path \in {"/ws/chat", "/ws/products"}
    \/ req.op = OP_WS_DISCONNECT /\ req.path \in {"/ws/notifications", "/ws/products"}

C13_UnknownUserClosed1008 ==
    [][ ( /\ request'.op = OP_WS_CONNECT
          /\ SignedUnexpiredAccessToken(request'.token)
          /\ ~HasUser(users, request'.token.claims.sub) )
        => /\ websockets'[request'.websocket].state = "closed"
           /\ websockets'[request'.websocket].code = 1008
           /\ request'.websocket \notin Range(active_connections') ]_vars

\* ------------------------------------------------------------------------
\* C18: a refresh token is never accepted where an access token is
\* required: a request that carries a signed, unexpired token of type
\* 'refresh' as its bearer credential is rejected with 401 before the
\* endpoint runs.
\* ------------------------------------------------------------------------
SignedUnexpiredRefreshToken(token) ==
    /\ "claims" \in DOMAIN token
    /\ token.key = SECRET_KEY
    /\ "exp" \in DOMAIN token.claims => token.claims.exp >= now
    /\ "type" \in DOMAIN token.claims
    /\ token.claims.type = "refresh"
    /\ "sub" \in DOMAIN token.claims

C18_RefreshTokenRejected ==
    [][ ( /\ "authorization" \in DOMAIN request'
          /\ IsBearer(request'.authorization)
          /\ SignedUnexpiredRefreshToken(request'.authorization.param) )
        => /\ ~handler_ran'
           /\ response'.status_code = 401 ]_vars

\* ------------------------------------------------------------------------
\* C19: POST /refresh issues a new token pair only for a validly signed,
\* unexpired token of type 'refresh' whose sub names an existing user; for
\* every other token it answers 401 "Nevalidnyj refresh-token", issues no
\* tokens and stores nothing.
\* ------------------------------------------------------------------------
OP_REFRESH == "POST /refresh"

RefreshTokenOfExistingUser(token) ==
    /\ SignedUnexpiredRefreshToken(token)
    /\ HasUser(users, token.claims.sub)

C19_RefreshOnlyWithRefreshToken ==
    [][ request'.op = OP_REFRESH
        => /\ (IssuesTokens(response') \/ refresh_tokens' # refresh_tokens)
                => RefreshTokenOfExistingUser(request'.token)
           /\ ~RefreshTokenOfExistingUser(request'.token)
                => /\ response' = [status_code |-> 401, headers |-> {},
                                   body |-> [detail |-> "Nevalidnyj refresh-token"]]
                   /\ refresh_tokens' = refresh_tokens
                   /\ users' = users
           /\ (RefreshTokenOfExistingUser(request'.token) /\ response'.status_code = 200)
                => /\ IsTokenPair(response')
                   /\ response'.body.access_token.claims.sub = request'.token.claims.sub
                   /\ response'.body.access_token.claims.type = "access"
                   /\ response'.body.refresh_token.claims.type = "refresh"
                   /\ \E row \in refresh_tokens' :
                         /\ row.username = request'.token.claims.sub
                         /\ row.refresh_token = response'.body.refresh_token ]_vars

\* A refresh token was exchanged for a new pair, whose refresh token was
\* stored next to the one of the registration.
C19_Witness ==
    /\ request.op = OP_REFRESH
    /\ response.status_code = 200
    /\ IssuesTokens(response)
    /\ Cardinality(refresh_tokens) = 2
    /\ \E row \in refresh_tokens : row.refresh_token = response.body.refresh_token

\* ------------------------------------------------------------------------
\* C16: compute_factorial_async and compute_sum_range are each attempted
\* at most three times per request: a failing attempt is retried after a
\* fixed 2-second wait, no attempt is made after the first successful one,
\* and after the third failure the error propagates and the task ends;
\* the task always terminates.
\* ------------------------------------------------------------------------
OP_ATTEMPT == "attempt"

Ended(task) == task.state \in {"returned", "raised"}

C16_AtMostThreeAttempts ==
    [][ request'.op = OP_ATTEMPT
        => /\ computation.attempt_number < 3
           /\ computation'.attempt_number = computation.attempt_number + 1
           /\ Len(computation.slept) = computation.attempt_number
           /\ \A i \in DOMAIN computation.slept : computation.slept[i] = 2
           /\ request'.outcome = "returned" => computation'.state = "returned"
           /\ (request'.outcome # "returned" /\ computation'.attempt_number < 3)
                => computation'.state = "waiting"
           /\ (request'.outcome # "returned" /\ computation'.attempt_number = 3)
                => computation'.state = "raised" ]_vars

C16_NothingAfterTheEnd ==
    [][ (computation.state # "none" /\ Ended(computation))
        => computation' = computation /\ calculations' = calculations ]_vars

C16_Terminates ==
    (computation.state # "none") ~> (computation.state # "none" /\ Ended(computation))

C16_RetryThreeTimes ==
    C16_AtMostThreeAttempts /\ C16_NothingAfterTheEnd /\ C16_Terminates

\* The third attempt failed after two waits of two seconds, and the task
\* ended with the error.
C16_Witness ==
    /\ computation.state = "raised"
    /\ computation.attempt_number = 3
    /\ computation.slept = <<2, 2>>
    /\ calculations = <<>>

\* ------------------------------------------------------------------------
\* C17: a GraphQL addProduct mutation sent without an Authorization header
\* fails: the response has null data and an error whose message contains
\* 'Not authenticated' (or 'Missing Authorization Header'), and no product
\* is inserted.
\* ------------------------------------------------------------------------
OP_GRAPHQL == "POST /graphql"

NotAuthenticatedMessages ==
    {"Not authenticated: Zagolovok Authorization otsutstvuet",
     "Missing Authorization Header"}

C17_AddProductNeedsHeader ==
    [][ ( /\ request'.op = OP_GRAPHQL
          /\ request'.field = "addProduct"
          /\ "scheme" \notin DOMAIN request'.authorization )
        => /\ response'.body.data = [none |-> TRUE]
           /\ "errors" \in DOMAIN response'.body
           /\ \E i \in DOMAIN response'.body.errors :
                 response'.body.errors[i].message \in NotAuthenticatedMessages
           /\ products' = products ]_vars

\* ------------------------------------------------------------------------
\* C20: GET /auth/me with a valid access token returns the information of
\* the current user, at least the username, and never the hashed_password.
\* ------------------------------------------------------------------------
OP_ME == "GET /auth/me"

C20_MeReturnsUsername ==
    (request.op = OP_ME /\ Authenticated(request))
    => /\ response.status_code = 200
       /\ "username" \in DOMAIN response.body
       /\ response.body.username = Caller(request)
       /\ "hashed_password" \notin DOMAIN response.body

\* ------------------------------------------------------------------------
\* C21: POST /media/upload and PATCH /users/me/avatar answer a file whose
\* content type does not start with "image/" with 400 "File must be an
\* image", store no object and write no avatar_url.
\* ------------------------------------------------------------------------
OP_MEDIA_UPLOAD == "POST /media/upload"
OP_AVATAR == "PATCH /users/me/avatar"

NotAnImage(file) == ~startswith(file.content_type, IMAGE_PREFIX)

C21_NonImageRejected400 ==
    [][(/\ request'.op \in {OP_MEDIA_UPLOAD, OP_AVATAR}
        /\ handler_ran'
        /\ NotAnImage(request'.file))
        => /\ response' = HTTPException(400, DETAIL_NOT_IMAGE, NoHeaders)
           /\ bucket' = bucket
           /\ avatar_urls' = avatar_urls]_vars

\* The part of C21 that the two endpoints share: a file that is not an image
\* stores no object and writes no avatar_url.
C21_NonImageStoresNothing ==
    [][(/\ request'.op \in {OP_MEDIA_UPLOAD, OP_AVATAR}
        /\ handler_ran'
        /\ NotAnImage(request'.file))
        => /\ bucket' = bucket
           /\ avatar_urls' = avatar_urls]_vars

\* PATCH /users/me/avatar alone answers 400.
C21_AvatarNonImageRejected400 ==
    [][(/\ request'.op = OP_AVATAR
        /\ handler_ran'
        /\ NotAnImage(request'.file))
        => response' = HTTPException(400, DETAIL_NOT_IMAGE, NoHeaders)]_vars

\* ------------------------------------------------------------------------
\* C22: when a connected client disconnects from /ws/notifications, /ws/chat
\* or /ws/products, its socket is removed from active_connections and then
\* a departure text naming its username is sent to every remaining
\* connection and not to the departed socket.
\* ------------------------------------------------------------------------
LeaveText(path, username) ==
    IF path = "/ws/notifications"
    THEN <<"Klient ", username, " otklyuchilsya">>
    ELSE IF path = "/ws/chat"
    THEN <<"Klient ", username, " pokinul chat">>
    ELSE <<"Klient '", username, "' pokinul chat.">>

DepartureBroadcast(paths) ==
    (request'.op = OP_WS_DISCONNECT /\ request'.path \in paths)
        => LET websocket == request'.websocket
               text == LeaveText(request'.path, websockets[websocket].username)
           IN  /\ websocket \in Range(active_connections)
               /\ websocket \notin Range(active_connections')
               /\ \A connection \in Range(active_connections) \ {websocket} :
                      connection \in Range(active_connections')
               /\ sent' = [i \in 1..Len(active_connections') |->
                              <<active_connections'[i], text>>]
               /\ received'[websocket] = received[websocket]

C22_DepartureBroadcastToRemaining ==
    [][DepartureBroadcast({"/ws/notifications", "/ws/chat", "/ws/products"})]_vars

\* /ws/notifications and /ws/products alone do what C22 says.
C22_NotificationsAndProductsDeparture ==
    [][DepartureBroadcast({"/ws/notifications", "/ws/products"})]_vars

\* On /ws/chat the socket is removed, and nothing is sent.
C22_ChatDepartureSendsNothing ==
    [][(request'.op = OP_WS_DISCONNECT /\ request'.path = "/ws/chat")
        => /\ request'.websocket \notin Range(active_connections')
           /\ sent' = <<>>
           /\ received' = received]_vars

\* ------------------------------------------------------------------------
\* C23: when create_tokens of src/main.py cannot save the refresh token, the
\* request is answered 500 without tokens and the database is as it was
\* before the request; a /register that ends so leaves no new row in users.
\* ------------------------------------------------------------------------
OP_MAIN_REGISTER == "POST /register"

RefreshTokenNotSaved(resp) ==
    /\ resp.status_code = 500
    /\ resp.body = [detail |-> "Oshibka sohraneniya refresh-tokena"]

C23_FailedSaveLeavesDatabase ==
    [][(request'.op \in {OP_MAIN_REGISTER, OP_REFRESH} /\ RefreshTokenNotSaved(response'))
        => /\ ~IssuesTokens(response')
           /\ refresh_tokens' = refresh_tokens
           /\ users' = users]_vars

\* The parts of C23 that hold: no tokens are returned and refresh_tokens is
\* unchanged, and a /refresh that ends in this error changes no table.
C23_FailedSaveReturnsNoTokens ==
    [][(request'.op \in {OP_MAIN_REGISTER, OP_REFRESH} /\ RefreshTokenNotSaved(response'))
        => /\ ~IssuesTokens(response')
           /\ refresh_tokens' = refresh_tokens
           /\ (request'.op = OP_REFRESH => users' = users)]_vars

\* The row a failed /register leaves behind.
C23_FailedRegisterKeepsUser ==
    [][(request'.op = OP_MAIN_REGISTER /\ RefreshTokenNotSaved(response'))
        => /\ ~HasUser(users, request'.user.username)
           /\ HasUser(users', request'.user.username)]_vars

C24_NotificationTextDropped ==
    /\ request.op = OP_WS_RECEIVE_TEXT
    /\ request.path = "/ws/notifications"
    /\ Len(active_connections) = 2
    /\ sent = <<>>

\* ------------------------------------------------------------------------
\* C25: connect_to_db makes at most 5 attempts to create the pool and the
\* tables and sleeps 5 seconds after each failed attempt except the last;
\* it returns at the first successful attempt with app.state.pool set, and
\* after the fifth failure it raises the error without sleeping; it always
\* terminates.
\* ------------------------------------------------------------------------
OP_CONNECT_ATTEMPT == "connect_to_db attempt"
OP_CONNECT_SLEEP == "connect_to_db sleep"

C25_AtMostFiveAttempts ==
    [][ /\ request'.op = OP_CONNECT_ATTEMPT
            => /\ startup.attempt \in 1..5
               /\ request'.attempt = startup.attempt
               /\ Len(startup.slept) = startup.attempt - 1
               /\ \A i \in DOMAIN startup.slept : startup.slept[i] = 5
               /\ startup'.slept = startup.slept
               /\ startup'.attempt = startup.attempt
               /\ request'.outcome = "returned"
                    => /\ startup'.state = "returned"
                       /\ app_state_pool' = [pool |-> startup.attempt]
               /\ (request'.outcome # "returned" /\ startup.attempt < 5)
                    => startup'.state = "sleeping"
               /\ (request'.outcome # "returned" /\ startup.attempt = 5)
                    => startup'.state = "raised"
        /\ request'.op = OP_CONNECT_SLEEP
            => /\ startup.state = "sleeping"
               /\ startup'.state = "attempting"
               /\ startup'.slept = Append(startup.slept, 5)
               /\ startup'.attempt = startup.attempt + 1 ]_vars

C25_NothingAfterTheEnd ==
    [][ (startup.state # "none" /\ Ended(startup))
        => startup' = startup /\ app_state_pool' = app_state_pool ]_vars

C25_Terminates ==
    (startup.state # "none") ~> (startup.state # "none" /\ Ended(startup))

C25_ConnectFiveTimes ==
    C25_AtMostFiveAttempts /\ C25_NothingAfterTheEnd /\ C25_Terminates

\* The fifth attempt failed after four sleeps of five seconds, and
\* connect_to_db ended with the error.
C25_Witness ==
    /\ startup.state = "raised"
    /\ startup.attempt = 5
    /\ startup.slept = <<5, 5, 5, 5>>
    /\ request.op = OP_CONNECT_ATTEMPT

\* The third attempt succeeded after two sleeps; app.state.pool is its pool.
C25_ReturnedAtThirdAttempt ==
    /\ startup.state = "returned"
    /\ startup.attempt = 3
    /\ startup.slept = <<5, 5>>
    /\ app_state_pool = [pool |-> 3]

\* ------------------------------------------------------------------------
\* C26: for any interleaving of two concurrent /auth/register requests for
\* the same new username, exactly one user row is created, exactly one
\* request returns tokens, and the other is answered 400 "already exists".
\* ------------------------------------------------------------------------
BothAnsweredForOneUsername ==
    /\ \A client \in Clients : registering[client].pc = "answered"
    /\ registering["c1"].user_in.username = registering["c2"].user_in.username

C26_ConcurrentRegisterOneWins ==
    BothAnsweredForOneUsername
        => /\ Cardinality({row \in users :
                   row.username = registering["c1"].user_in.username}) = 1
           /\ \E winner \in Clients :
                  /\ IsTokenPair(registering[winner].response)
                  /\ \A other \in Clients \ {winner} :
                         registering[other].response =
                             HTTPException(400,
                                 "Polzovatel s takim imenem uzhe sushchestvuet", NoHeaders)

\* The parts of C26 that hold: one row, and one request with tokens.
C26_OneRowOneTokenPair ==
    BothAnsweredForOneUsername
        => /\ Cardinality({row \in users :
                   row.username = registering["c1"].user_in.username}) = 1
           /\ Cardinality({client \in Clients :
                   IsTokenPair(registering[client].response)}) = 1

\* The request whose INSERT comes second is answered 500.
C26_SecondInsertAnswered500 ==
    [][(/\ request'.op = OP_REGISTER
        /\ request'.step = "INSERT"
        /\ HasUser(users, request'.user_in.username))
        => /\ response'.status_code = 500
           /\ users' = users]_vars

\* ------------------------------------------------------------------------
\* C27: under any interleaving of a broadcast with connects and disconnects
\* of other clients, every connection that is in active_connections from
\* the start to the end of that broadcast receives the message exactly
\* once.
\* ------------------------------------------------------------------------
OP_BROADCAST_RESUME == "broadcast resume"

TimesSentTo(bc, connection) ==
    Cardinality({i \in DOMAIN bc.sent_to : bc.sent_to[i] = connection})

\* The broadcast of b returns in this step: its loop found no further element.
Returns(b) ==
    /\ request'.op = OP_BROADCAST_RESUME
    /\ request'.broadcaster = b
    /\ broadcasting[b] # NoBroadcast
    /\ broadcasting[b].next > Len(active_connections)

C27_StableConnectionReceivesOnce ==
    [][\A b \in Broadcasters :
           Returns(b)
               => \A connection \in broadcasting[b].present :
                      websockets[connection].state = "accepted"
                          => TimesSentTo(broadcasting[b], connection) = 1]_vars

\* The part of C27 that holds: no connection is sent the message twice.
C27_NoConnectionReceivesTwice ==
    \A b \in Broadcasters :
        broadcasting[b] # NoBroadcast
            => \A connection \in Sockets : TimesSentTo(broadcasting[b], connection) <= 1

\* A broadcast of a new product returned, and a client that was connected
\* throughout, and still is, was sent nothing.
C27_SkippedConnection ==
    [][~ \E connection \in Sockets :
            /\ Returns("task")
            /\ connection \in broadcasting["task"].present
            /\ websockets[connection].state = "accepted"
            /\ TimesSentTo(broadcasting["task"], connection) = 0
            /\ Len(broadcasting["task"].sent_to) = 1]_vars

\* ------------------------------------------------------------------------
\* C28: active_connections holds only sockets whose handler is still
\* running: after a handler has ended, by a client disconnect or by an error
\* raised while receiving or while broadcasting to another client, its
\* socket is no longer in active_connections.
\* ------------------------------------------------------------------------
HandlerRunning(websocket) == websockets[websocket].state \in {"accepted", "client gone"}

C28_OnlyRunningHandlersListed ==
    \A connection \in Range(active_connections) : HandlerRunning(connection)

\* The part of C28 that holds: a handler that ended on WebSocketDisconnect
\* has removed its socket.
C28_DisconnectedSocketRemoved ==
    \A websocket \in Sockets :
        websockets[websocket].state = "disconnected"
            => websocket \notin Range(active_connections)

\* ------------------------------------------------------------------------
\* C29: an accepted compute request (factorial or sum) results in at most
\* one row in calculations and at most one completion notification across
\* all of its retry attempts: no attempt is made after the row of an
\* earlier attempt was committed.
\* ------------------------------------------------------------------------
IsCompletionText(text) == Len(text) = 6 /\ text[1] = "Zadacha "

Notifications(websocket) ==
    Cardinality({i \in DOMAIN received[websocket] :
                    IsCompletionText(received[websocket][i])})

C29_AtMostOneRowAndNotification ==
    /\ Len(calculations) <= 1
    /\ \A websocket \in Sockets : Notifications(websocket) <= 1

\* An attempt that starts after a row was committed.
C29_NoAttemptAfterCommit ==
    [][request'.op = OP_ATTEMPT => calculations = <<>>]_vars

\* Without an error of notify_completion the claim holds: an attempt that
\* fails before the commit leaves no row.
C29_OneRowUnlessNotificationFails ==
    [][(request'.op = OP_ATTEMPT /\ request'.outcome # "notification error")
        => /\ Len(calculations') <= Len(calculations) + 1
           /\ (request'.outcome = "database error" => calculations' = calculations)
           /\ (request'.outcome = "returned" => Ended(computation'))]_vars

\* ------------------------------------------------------------------------
\* C30: no read operation discloses a product to a caller who does not own
\* it: the GraphQL queries products and product, like REST GET /products,
\* return only products whose owner_username is the authenticated caller.
\* ------------------------------------------------------------------------
IsRead(req) ==
    \/ req.op = OP_GET_PRODUCTS
    \/ req.op = OP_GRAPHQL /\ req.field \in {"products", "product"}

\* The ids of the products that the answer to a read carries.
DisclosedIds(req, resp) ==
    IF req.op = OP_GET_PRODUCTS
    THEN IF resp.status_code = 200 THEN {item.id : item \in resp.body} ELSE {}
    ELSE IF req.field = "products"
    THEN {item.id : item \in resp.body.data.value}
    ELSE IF resp.body.data.value = JSONNull THEN {}
    ELSE {resp.body.data.value.id}

OwnsAll(req, ids) ==
    \A id \in ids :
        /\ Authenticated(req)
        /\ \E p \in products : p.id = id /\ p.owner_username = Caller(req)

C30_ReadsDiscloseOwnProductsOnly ==
    [][IsRead(request') => OwnsAll(request', DisclosedIds(request', response'))]_vars

\* The part of C30 that holds: REST GET /products.
C30_RestReadsDiscloseOwnProductsOnly ==
    [][request'.op = OP_GET_PRODUCTS
        => OwnsAll(request', DisclosedIds(request', response'))]_vars

\* A GraphQL query without an Authorization header is answered with a
\* product of alice.
C30_AnonymousReadsProductOfAlice ==
    [][~ /\ request'.op = OP_GRAPHQL
         /\ request'.field = "products"
         /\ "scheme" \notin DOMAIN request'.authorization
         /\ \E item \in response'.body.data.value :
                \E p \in products : p.id = item.id /\ p.owner_username = "alice"]_vars

====
